---------------------------- MODULE Spec2Model ----------------------------
(***************************************************************************)
(* Verification model of the Vietnam-Environmental-Data pipeline:          *)
(*   - the pooled crawl orchestrators (climate, soil, water),              *)
(*   - the air-quality crawler's per-source retry loop,                    *)
(*   - the soil crawler's file cache,                                      *)
(*   - the domain cleaners,                                                *)
(*   - the dimensional transforms and the load into the SQL store.         *)
(* Each subsystem has its own specification over its own variables; the    *)
(* variables of the other subsystems stay at their idle values.            *)
(***************************************************************************)
EXTENDS Integers, Sequences, FiniteSets, TLC

VARIABLES
    \* ---- pooled orchestrator (run_climate_crawl & co) ----
    domain,       \* which orchestrator runs: "climate", "soil" or "water"
    apiKeySet,    \* OPENWEATHER_API_KEY is configured
    locations,    \* the submitted location list
    future,       \* per submitted task: its executor future
    data,         \* the collected batch, in collection order
    response,     \* the HTTP response of the run, or NoResponse
    \* ---- air crawler (run_optimized_crawl) ----
    airOnline,    \* what check_connectivity will find
    airKeys,      \* the sources whose API key was passed
    airMode,      \* per crawled source: how its provider behaves in this run
    airCities,    \* get_vietnam_cities()
    airPc,        \* position of run_optimized_crawl
    airTask,      \* index into crawl_tasks
    airAttempt,   \* attempt of the per-source retry loop (range(max_retries))
    airDone,      \* cities the running crawl function has dealt with
    airTry,       \* attempt of WAQI's per-city retry loop
    airData,      \* the running crawl function's data list
    all_results,  \* records gathered over all sources
    airWait,      \* seconds of the last time.sleep of the retry loops
    airSeen401,   \* sources that have answered 401
    airAfter401,  \* sources that were sent a request after answering 401
    airResponse,  \* what run_optimized_crawl returned
    \* ---- soil crawler cache ----
    clock,        \* datetime.now(), in hours
    ticks,        \* how often the clock has been advanced
    cacheFile,    \* per cached source: the cache file of the coordinate
    cacheServed,  \* what the last fetch returned and where it came from
    \* ---- cleaners ----
    cleanDomain,  \* which cleaner runs: "air", "climate" or "soil"
    rawBatch,     \* the frame handed to the cleaner
    cleaned,      \* the cleaner's output
    recleaned,    \* the cleaner's output on its own output
    cleanPc,      \* "raw", "cleaned" or "recleaned"
    \* ---- clean + transform of one batch ----
    tfDomain,     \* whose pipeline runs: "air", "climate", "soil" or "water"
    tfAbsent,     \* the columns the raw frame does not have
    tfRaw,        \* the raw frame
    tfClean,      \* the cleaner's output
    tfSteps,      \* the frames before and after each imputation of the cleaner
    tfTables,     \* what the transform returned
    tfPc,         \* "raw", "cleaned" or "transformed"
    \* ---- load into the store ----
    store,        \* per domain: its dimension tables and its fact table
    loadRuns,     \* how many load runs have been made
    lastLoad,     \* the latest run: its input, its store operations, its answer
    \* ---- tasks sharing one cache file ----
    raceFile,     \* the file under the cache key: whether it exists, its cells
    racePc,       \* per task: its position in its fetcher
    racePos,      \* per task: the position of its open file
    raceQueue,    \* per task: the chunks its open file has still to write
    raceRead,     \* per task: what its last load_cached_data returned
    raceRounds    \* per task: the round it is in

poolVars == <<domain, apiKeySet, locations, future, data, response>>

airVars == <<airOnline, airKeys, airMode, airCities, airPc, airTask, airAttempt,
             airDone, airTry, airData, all_results, airWait, airSeen401,
             airAfter401, airResponse>>

cacheVars == <<clock, ticks, cacheFile, cacheServed>>

cleanVars == <<cleanDomain, rawBatch, cleaned, recleaned, cleanPc>>

transformVars == <<tfDomain, tfAbsent, tfRaw, tfClean, tfSteps, tfTables, tfPc>>

loadVars == <<store, loadRuns, lastLoad>>

raceVars == <<raceFile, racePc, racePos, raceQueue, raceRead, raceRounds>>

nonPoolVars == <<airVars, cacheVars, cleanVars, transformVars, loadVars, raceVars>>

nonAirVars == <<poolVars, cacheVars, cleanVars, transformVars, loadVars, raceVars>>

nonCacheVars == <<poolVars, airVars, cleanVars, transformVars, loadVars, raceVars>>

nonCleanVars == <<poolVars, airVars, cacheVars, transformVars, loadVars, raceVars>>

nonTransformVars == <<poolVars, airVars, cacheVars, cleanVars, loadVars, raceVars>>

nonLoadVars == <<poolVars, airVars, cacheVars, cleanVars, transformVars, raceVars>>

nonRaceVars == <<poolVars, airVars, cacheVars, cleanVars, transformVars, loadVars>>

vars == <<poolVars, airVars, cacheVars, cleanVars, transformVars, loadVars, raceVars>>

(***************************************************************************)
(* Shared values                                                           *)
(***************************************************************************)
\* Python's None in a string-valued position
None == "None"

\* the response slot before the handler has answered
NoResponse == [status |-> 0]

\* number of locations a run may be handed
MaxLocations == 2

(***************************************************************************)
(* Location registry                                                       *)
(***************************************************************************)
\* the hard-coded fallback list (latitude/longitude in whole degrees)
LocationPool ==
    << [name |-> "Hanoi",   province |-> "Hanoi",          lat |-> 21, lon |-> 105],
       [name |-> "Da Nang", province |-> "Da Nang",        lat |-> 16, lon |-> 108],
       [name |-> "Hue",     province |-> "Thua Thien Hue", lat |-> 16, lon |-> 107] >>

\* what the provider does with one fetch
ProviderOutcomes == {"ok", "http401", "http429", "http500", "timeout", "internal_error"}

\* outcomes the spec calls transient: timeout, 5xx, HTTP 429
TransientOutcomes == {"http429", "http500", "timeout"}

StatusOf(o) == CASE o = "http401" -> "401"
                 [] o = "http429" -> "429"
                 [] o = "http500" -> "500"
                 [] OTHER         -> None

(***************************************************************************)
(* Source adapters: one fetch for one location                             *)
(***************************************************************************)
\* climate: a non-200 status gives a failure record with the status as the
\* error code, an exception (timeout, malformed body) one with code None
crawl_location(location, o) ==
    IF o = "ok"
    THEN [timestamp |-> "dt", crawl_time |-> "crawl_time",
          location |-> location.name, province |-> location.province,
          lat |-> location.lat, lon |-> location.lon,
          temperature |-> 30, humidity |-> 70, source |-> "openweather",
          success |-> TRUE, error_code |-> None, error_message |-> None]
    ELSE [timestamp |-> "crawl_time",
          location |-> location.name, province |-> location.province,
          lat |-> location.lat, lon |-> location.lon,
          success |-> FALSE,
          error_code |-> StatusOf(o),
          error_message |-> o]

\* soil: the sub-fetchers swallow provider errors and return None, so a
\* provider failure still yields a reading (with no data source); only an
\* exception in the adapter's own body yields a failure record
crawl_soil_location(location, o) ==
    IF o = "internal_error"
    THEN [timestamp |-> "now",
          location |-> location.name, province |-> location.province,
          lat |-> location.lat, lon |-> location.lon,
          data_sources |-> << >>,
          success |-> FALSE, error_message |-> o]
    ELSE [timestamp |-> "now",
          location |-> location.name, province |-> location.province,
          lat |-> location.lat, lon |-> location.lon,
          data_sources |-> IF o = "ok"
                           THEN <<"soilgrids", "open_meteo", "nasa_power">>
                           ELSE << >>]

\* water: provider errors are replaced by simulated values inside the
\* sub-fetcher; an exception in the adapter's body yields a failure record
crawl_water_location(location, o) ==
    IF o = "internal_error"
    THEN [timestamp |-> "now",
          location |-> location.name, province |-> location.province,
          lat |-> location.lat, lon |-> location.lon,
          major_river |-> "N/A",
          success |-> FALSE, error_message |-> o]
    ELSE [timestamp |-> "now",
          location |-> location.name, province |-> location.province,
          lat |-> location.lat, lon |-> location.lon,
          major_river |-> "N/A",
          source |-> "openweather",
          current_humidity |-> IF o = "ok" THEN 70 ELSE 75]

Fetch(d, location, o) ==
    CASE d = "climate" -> crawl_location(location, o)
      [] d = "soil"    -> crawl_soil_location(location, o)
      [] d = "water"   -> crawl_water_location(location, o)

IsFailureRecord(r) == "success" \in DOMAIN r /\ r.success = FALSE

(***************************************************************************)
(* Pooled orchestrator                                                     *)
(***************************************************************************)
MaxWorkersOf(d) == CASE d = "climate" -> 10 [] d = "soil" -> 8 [] d = "water" -> 10

Min(a, b) == IF a < b THEN a ELSE b

max_workers == Min(MaxWorkersOf(domain), Len(locations))

Tasks == 1 .. Len(locations)

Running == {i \in Tasks : future[i].state = "running"}

\* the record the collector appends when future.result() raises
FailureRecordFor(d, loc) ==
    CASE d = "climate" ->
            [timestamp |-> "crawl_time", location |-> loc.name, province |-> loc.province,
             lat |-> loc.lat, lon |-> loc.lon,
             success |-> FALSE, error_code |-> None, error_message |-> "raised"]
      [] d = "soil" ->
            [timestamp |-> "now", location |-> loc.name, province |-> loc.province,
             lat |-> loc.lat, lon |-> loc.lon, data_sources |-> << >>,
             success |-> FALSE, error_message |-> "raised"]
      [] d = "water" ->
            [timestamp |-> "now", location |-> loc.name, province |-> loc.province,
             lat |-> loc.lat, lon |-> loc.lon, major_river |-> "N/A",
             success |-> FALSE, error_message |-> "raised"]

\* what the collector appends for a finished future
Collected(d, loc, f) ==
    IF f.raised THEN FailureRecordFor(d, loc) ELSE f.result

\* a collector that loses the record of a task whose future raised
AppendResultDropsRaised(batch, d, loc, f) ==
    IF f.raised THEN batch ELSE Append(batch, f.result)

\* data.append(...) in either branch of the collector's try
AppendResult(batch, d, loc, f) == Append(batch, Collected(d, loc, f))

NeedsKey(d) == d \in {"climate", "water"}

PoolInit ==
    /\ domain \in {"climate", "soil", "water"}
    /\ apiKeySet \in BOOLEAN
    /\ \E n \in 0 .. MaxLocations : locations = SubSeq(LocationPool, 1, n)
    /\ future = [i \in 1 .. Len(locations) |->
                    [state |-> "queued", raised |-> FALSE, result |-> None,
                     cause |-> None, requests |-> 0]]
    /\ data = << >>
    /\ response = NoResponse

\* the handler refuses to run without its provider key (HTTPException
\* re-raised as a 500 by the outer handler)
RejectNoApiKey ==
    /\ response = NoResponse
    /\ NeedsKey(domain) /\ ~apiKeySet
    /\ response' = [status |-> 500, success |-> FALSE]
    /\ UNCHANGED <<domain, apiKeySet, locations, future, data>>
    /\ UNCHANGED nonPoolVars

\* ThreadPoolExecutor(max_workers=0) raises ValueError for an empty list
RejectEmptyPool ==
    /\ response = NoResponse
    /\ ~(NeedsKey(domain) /\ ~apiKeySet)
    /\ max_workers = 0
    /\ response' = [status |-> 500, success |-> FALSE]
    /\ UNCHANGED <<domain, apiKeySet, locations, future, data>>
    /\ UNCHANGED nonPoolVars

PoolOpen ==
    /\ response = NoResponse
    /\ ~(NeedsKey(domain) /\ ~apiKeySet)
    /\ max_workers > 0

\* a pool worker takes a queued task
StartTask(i) ==
    /\ PoolOpen
    /\ future[i].state = "queued"
    /\ Cardinality(Running) < max_workers
    /\ future' = [future EXCEPT ![i].state = "running"]
    /\ UNCHANGED <<domain, apiKeySet, locations, data, response>>
    /\ UNCHANGED nonPoolVars

\* the adapter sends its one request and returns its record for whatever
\* the provider did; there is no loop around the request
FinishTask(i, o) ==
    /\ PoolOpen
    /\ future[i].state = "running"
    /\ future' = [future EXCEPT ![i] =
                    [state |-> "finished", raised |-> FALSE,
                     result |-> Fetch(domain, locations[i], o),
                     cause |-> o, requests |-> future[i].requests + 1]]
    /\ UNCHANGED <<domain, apiKeySet, locations, data, response>>
    /\ UNCHANGED nonPoolVars

\* an exception escapes the task and is stored in its future
TaskRaises(i) ==
    /\ PoolOpen
    /\ future[i].state = "running"
    /\ future' = [future EXCEPT ![i] =
                    [state |-> "finished", raised |-> TRUE, result |-> None,
                     cause |-> "raised", requests |-> future[i].requests]]
    /\ UNCHANGED <<domain, apiKeySet, locations, data, response>>
    /\ UNCHANGED nonPoolVars

\* one turn of the as_completed loop: any finished, not yet collected future
Collect(i) ==
    /\ PoolOpen
    /\ future[i].state = "finished"
    /\ data' = AppendResult(data, domain, locations[i], future[i])
    /\ future' = [future EXCEPT ![i].state = "collected"]
    /\ UNCHANGED <<domain, apiKeySet, locations, response>>
    /\ UNCHANGED nonPoolVars

TotalLocations(d) == IF d = "soil" THEN Len(data) ELSE Len(locations)

\* after the loop: an empty batch raises (answered as a 500 by the outer
\* handler), anything else is returned with success=True
Respond ==
    /\ PoolOpen
    /\ \A i \in Tasks : future[i].state = "collected"
    /\ response' = IF data = << >>
                   THEN [status |-> 500, success |-> FALSE]
                   ELSE [status |-> 200, success |-> TRUE,
                         total_records |-> Len(data),
                         total_locations |-> TotalLocations(domain)]
    /\ UNCHANGED <<domain, apiKeySet, locations, future, data>>
    /\ UNCHANGED nonPoolVars

\* the air crawler at rest
AirIdle ==
    /\ airOnline = FALSE /\ airKeys = {} /\ airMode = << >> /\ airCities = << >>
    /\ airPc = "idle" /\ airTask = 0 /\ airAttempt = 0 /\ airDone = {}
    /\ airTry = 0 /\ airData = << >> /\ all_results = << >> /\ airWait = 0
    /\ airSeen401 = {} /\ airAfter401 = {} /\ airResponse = NoResponse

\* the cache untouched
CacheIdle ==
    /\ clock = 0 /\ ticks = 0 /\ cacheFile = << >> /\ cacheServed = [origin |-> "none"]

\* no cleaner running
CleanIdle ==
    /\ cleanDomain = "air" /\ rawBatch = << >> /\ cleaned = << >>
    /\ recleaned = << >> /\ cleanPc = "idle"

\* no pipeline running
TransformIdle ==
    /\ tfDomain = "air" /\ tfAbsent = {} /\ tfRaw = << >> /\ tfClean = << >>
    /\ tfSteps = << >> /\ tfTables = << >> /\ tfPc = "idle"

\* no load made
LoadIdle ==
    /\ store = << >> /\ loadRuns = 0 /\ lastLoad = [path |-> "none"]

\* no task at the cache file
RaceIdle ==
    /\ raceFile = << >> /\ racePc = << >> /\ racePos = << >>
    /\ raceQueue = << >> /\ raceRead = << >> /\ raceRounds = << >>

Init == PoolInit /\ AirIdle /\ CacheIdle /\ CleanIdle /\ TransformIdle /\ LoadIdle /\ RaceIdle

Next ==
    \/ RejectNoApiKey
    \/ RejectEmptyPool
    \/ \E i \in Tasks : StartTask(i)
    \/ \E i \in Tasks, o \in ProviderOutcomes : FinishTask(i, o)
    \/ \E i \in Tasks : TaskRaises(i)
    \/ \E i \in Tasks : Collect(i)
    \/ Respond

Spec == Init /\ [][Next]_vars

(***************************************************************************)
(* Air crawler: run_optimized_crawl and its three crawl functions          *)
(***************************************************************************)
\* number of cities the crawler walks over
MaxCities == 3

\* head of get_vietnam_cities() (coordinates in whole degrees)
AirCityPool ==
    << [name |-> "Ho Chi Minh City", province |-> "Ho Chi Minh", lat |-> 10, lon |-> 106],
       [name |-> "Hanoi",            province |-> "Hanoi",       lat |-> 21, lon |-> 105],
       [name |-> "Da Nang",          province |-> "Da Nang",     lat |-> 16, lon |-> 108],
       [name |-> "Can Tho",          province |-> "Can Tho",     lat |-> 10, lon |-> 105] >>

\* the order in which run_optimized_crawl lines its sources up
AirSources == <<"WAQI", "IQAir", "OpenWeatherMap">>

\* WAQI always runs, the other two only with a key
IsCrawled(s) == s = "WAQI" \/ s \in airKeys

crawl_tasks == SelectSeq(AirSources, IsCrawled)

\* max_retries of the per-source loop and of WAQI's per-city loop
max_retries == 3

\* 2 ** attempt
RECURSIVE Pow2(_)
Pow2(n) == IF n = 0 THEN 1 ELSE 2 * Pow2(n - 1)

\* how a provider behaves during one run
AirModes == {"up", "down", "unauthorized", "flaky"}

\* what one city's request sequence can end in under a provider behaviour
AirOutcomes(mode) ==
    CASE mode = "up"           -> {"ok"}
      [] mode = "down"         -> {"fail"}
      [] mode = "unauthorized" -> {"http401"}
      [] mode = "flaky"        -> {"ok", "fail"}

SourceTag(s) ==
    CASE s = "WAQI" -> "waqi" [] s = "IQAir" -> "iqair" [] s = "OpenWeatherMap" -> "openweathermap"

\* the record a crawl function builds from a successful answer
\* (WAQI's also carries status = 'success')
AirRecord(s, city) ==
    IF s = "WAQI"
    THEN [timestamp |-> "now", city |-> city.name, province |-> city.province,
          latitude |-> city.lat, longitude |-> city.lon, aqi |-> 55,
          source |-> SourceTag(s), status |-> "success"]
    ELSE [timestamp |-> "now", city |-> city.name, province |-> city.province,
          latitude |-> city.lat, longitude |-> city.lon, aqi |-> 55,
          source |-> SourceTag(s)]

\* merge_data: every record gets a city_source label
merge_data(rs) ==
    [k \in 1 .. Len(rs) |->
        [f \in DOMAIN rs[k] \cup {"city_source"} |->
            IF f = "city_source" THEN <<rs[k].city, rs[k].source>> ELSE rs[k][f]]]

\* df['source'].value_counts().to_dict()
value_counts(rs) ==
    [t \in {rs[k].source : k \in 1 .. Len(rs)} |->
        Cardinality({k \in 1 .. Len(rs) : rs[k].source = t})]

AirCityIds == 1 .. Len(airCities)

CurrentSource == crawl_tasks[airTask]

\* WAQI and OpenWeatherMap walk the cities in list order; IQAir's two
\* workers complete in any order
MayHandle(s, c) ==
    /\ c \in AirCityIds \ airDone
    /\ s = "IQAir" \/ \A b \in AirCityIds \ airDone : c <= b

AirInit ==
    /\ airOnline \in BOOLEAN
    /\ airKeys \in SUBSET {"IQAir", "OpenWeatherMap"}
    /\ airMode \in [{"WAQI"} \cup airKeys -> AirModes]
    /\ \E n \in 1 .. MaxCities : airCities = SubSeq(AirCityPool, 1, n)
    /\ airPc = "check" /\ airTask = 0 /\ airAttempt = 0 /\ airDone = {}
    /\ airTry = 0 /\ airData = << >> /\ all_results = << >> /\ airWait = 0
    /\ airSeen401 = {} /\ airAfter401 = {} /\ airResponse = NoResponse

\* check_connectivity fails: the crawl is aborted
AbortOffline ==
    /\ airPc = "check" /\ ~airOnline
    /\ airPc' = "done"
    /\ airResponse' = [success |-> FALSE, error |-> "Network connectivity issue"]
    /\ UNCHANGED <<airOnline, airKeys, airMode, airCities, airTask, airAttempt, airDone,
                   airTry, airData, all_results, airWait, airSeen401, airAfter401>>
    /\ UNCHANGED nonAirVars

\* check_connectivity succeeds: the task list is built, the first source starts
StartCrawl ==
    /\ airPc = "check" /\ airOnline
    /\ airPc' = "crawl" /\ airTask' = 1 /\ airAttempt' = 0
    /\ UNCHANGED <<airOnline, airKeys, airMode, airCities, airDone, airTry, airData,
                   all_results, airWait, airSeen401, airAfter401, airResponse>>
    /\ UNCHANGED nonAirVars

\* what the request history becomes when source s is asked and answers o
Seen401After(s, o) == IF o = "http401" THEN airSeen401 \cup {s} ELSE airSeen401

After401After(s) == IF s \in airSeen401 THEN airAfter401 \cup {s} ELSE airAfter401

\* crawl_city / crawl_city_openweather for one city: a record on success,
\* None (nothing appended) on 401 or on any other failure; the loop then
\* goes on to the next city
CrawlCity(c, o) ==
    /\ airPc = "crawl"
    /\ CurrentSource # "WAQI"
    /\ MayHandle(CurrentSource, c)
    /\ o \in AirOutcomes(airMode[CurrentSource])
    /\ airData' = IF o = "ok" THEN Append(airData, AirRecord(CurrentSource, airCities[c]))
                  ELSE airData
    /\ airDone' = airDone \cup {c}
    /\ airSeen401' = Seen401After(CurrentSource, o)
    /\ airAfter401' = After401After(CurrentSource)
    /\ UNCHANGED <<airOnline, airKeys, airMode, airCities, airPc, airTask, airAttempt,
                   airTry, all_results, airWait, airResponse>>
    /\ UNCHANGED nonAirVars

\* one turn of WAQI's per-city loop: get_city_data, then append and break,
\* or sleep 2 s and try again, or give the city up after max_retries turns
CrawlCityWaqi(c, o) ==
    /\ airPc = "crawl"
    /\ CurrentSource = "WAQI"
    /\ MayHandle("WAQI", c)
    /\ o \in AirOutcomes(airMode["WAQI"])
    /\ airSeen401' = Seen401After("WAQI", o)
    /\ airAfter401' = After401After("WAQI")
    /\ IF o = "ok"
       THEN /\ airData' = Append(airData, AirRecord("WAQI", airCities[c]))
            /\ airDone' = airDone \cup {c}
            /\ airTry' = 0
            /\ UNCHANGED airWait
       ELSE IF airTry < max_retries - 1
       THEN /\ airTry' = airTry + 1
            /\ airWait' = 2
            /\ UNCHANGED <<airData, airDone>>
       ELSE /\ airDone' = airDone \cup {c}
            /\ airTry' = 0
            /\ UNCHANGED <<airData, airWait>>
    /\ UNCHANGED <<airOnline, airKeys, airMode, airCities, airPc, airTask, airAttempt,
                   all_results, airResponse>>
    /\ UNCHANGED nonAirVars

CallReturned == airPc = "crawl" /\ airDone = AirCityIds

\* leaving a source's retry loop: 3 s pause and the next source, or the end
LeaveSource ==
    /\ IF airTask = Len(crawl_tasks)
       THEN airPc' = "respond" /\ UNCHANGED <<airTask, airWait>>
       ELSE airPc' = airPc /\ airTask' = airTask + 1 /\ airWait' = 3
    /\ airAttempt' = 0 /\ airDone' = {} /\ airData' = << >>

\* a loop that extends all_results and goes on to the next attempt
CallSucceedsNoBreak ==
    /\ CallReturned
    /\ airData # << >>
    /\ all_results' = all_results \o airData
    /\ IF airAttempt < max_retries - 1
       THEN /\ airAttempt' = airAttempt + 1
            /\ airDone' = {}
            /\ airData' = << >>
            /\ UNCHANGED <<airPc, airTask, airWait>>
       ELSE LeaveSource
    /\ UNCHANGED <<airOnline, airKeys, airMode, airCities, airTry, airSeen401,
                   airAfter401, airResponse>>
    /\ UNCHANGED nonAirVars

\* the crawl function returned records: extend all_results and break
CallSucceeds ==
    /\ CallReturned
    /\ airData # << >>
    /\ all_results' = all_results \o airData
    /\ LeaveSource
    /\ UNCHANGED <<airOnline, airKeys, airMode, airCities, airTry, airSeen401,
                   airAfter401, airResponse>>
    /\ UNCHANGED nonAirVars

\* the crawl function returned nothing: sleep 2 ** attempt and call it again
CallRetries ==
    /\ CallReturned
    /\ airData = << >>
    /\ airAttempt < max_retries - 1
    /\ airWait' = Pow2(airAttempt)
    /\ airAttempt' = airAttempt + 1
    /\ airDone' = {}
    /\ UNCHANGED <<airOnline, airKeys, airMode, airCities, airPc, airTask, airTry,
                   airData, all_results, airSeen401, airAfter401, airResponse>>
    /\ UNCHANGED nonAirVars

\* the last attempt returned nothing as well: the source is given up
CallGivesUp ==
    /\ CallReturned
    /\ airData = << >>
    /\ airAttempt = max_retries - 1
    /\ LeaveSource
    /\ UNCHANGED <<airOnline, airKeys, airMode, airCities, airTry, all_results,
                   airSeen401, airAfter401, airResponse>>
    /\ UNCHANGED nonAirVars

\* the result: the merged records with success=True (or the failure to save
\* them), or the error for an empty all_results
AirRespond(saved) ==
    /\ airPc = "respond"
    /\ airPc' = "done"
    /\ IF all_results # << >>
       THEN /\ all_results' = merge_data(all_results)
            /\ airResponse' =
                 IF saved
                 THEN [success |-> TRUE,
                       total_records |-> Len(all_results),
                       cities_covered |->
                           Cardinality({all_results[k].city : k \in 1 .. Len(all_results)}),
                       sources |-> value_counts(all_results)]
                 ELSE [success |-> FALSE, error |-> "Failed to save CSV file"]
       ELSE /\ saved
            /\ airResponse' = [success |-> FALSE,
                               error |-> "No data was successfully crawled from any source"]
            /\ UNCHANGED all_results
    /\ UNCHANGED <<airOnline, airKeys, airMode, airCities, airTask, airAttempt, airDone,
                   airTry, airData, airWait, airSeen401, airAfter401>>
    /\ UNCHANGED nonAirVars

\* the pooled orchestrator at rest
PoolIdle ==
    /\ domain = "climate" /\ apiKeySet = FALSE /\ locations = << >>
    /\ future = << >> /\ data = << >> /\ response = NoResponse

InitAir == AirInit /\ PoolIdle /\ CacheIdle /\ CleanIdle /\ TransformIdle /\ LoadIdle /\ RaceIdle

NextAir ==
    \/ AbortOffline
    \/ StartCrawl
    \/ \E c \in AirCityIds, o \in {"ok", "fail", "http401"} : CrawlCity(c, o)
    \/ \E c \in AirCityIds, o \in {"ok", "fail", "http401"} : CrawlCityWaqi(c, o)
    \/ CallSucceeds
    \/ CallRetries
    \/ CallGivesUp
    \/ \E saved \in BOOLEAN : AirRespond(saved)

SpecAir == InitAir /\ [][NextAir]_vars

(***************************************************************************)
(* Soil crawler file cache: load_cached_data, save_to_cache and the        *)
(* fetchers that go through them                                           *)
(***************************************************************************)
\* how many times the clock may be advanced in one exploration
MaxTicks == 3

\* the steps by which the clock is advanced, in hours
TickHours == {1, 167}

\* the cached fetchers and the max_age_hours each passes to load_cached_data
CachedSources == {"soilgrids", "open_meteo"}

max_age_hours(source) == CASE source = "soilgrids" -> 168 [] source = "open_meteo" -> 1

\* no file under the cache key
NoFile == [kind |-> "absent"]

\* load_cached_data's None
NoData == [kind |-> "None"]

\* a cache file: stamped says whether it has a 'cached_at' key
CacheFile(stamped, at, fetched) ==
    [kind |-> "file", stamped |-> stamped, cached_at |-> at, fetched_at |-> fetched]

\* load_cached_data: the file's content if there is a readable file. The age
\* test only chooses the log line: both of its branches fall through to the
\* same 'return data'.
load_cached_data(file, now, max_age) ==
    IF file.kind = "absent"
    THEN NoData
    ELSE IF file.stamped
         THEN IF now - file.cached_at < max_age
              THEN file
              ELSE file
         ELSE file

\* save_to_cache: the payload stamped with the current time
save_to_cache(now) == CacheFile(TRUE, now, now)

CacheInit ==
    /\ clock = 0 /\ ticks = 0
    /\ cacheFile \in [CachedSources -> {NoFile, CacheFile(TRUE, 0, 0), CacheFile(FALSE, 0, 0)}]
    /\ cacheServed = [origin |-> "none"]

\* time passes
Tick(h) ==
    /\ ticks < MaxTicks
    /\ clock' = clock + h
    /\ ticks' = ticks + 1
    /\ UNCHANGED <<cacheFile, cacheServed>>
    /\ UNCHANGED nonCacheVars

\* get_soilgrids_data / get_open_meteo_soil_data for one coordinate: the
\* cached data if load_cached_data returns any, else one request whose
\* answer is cached when it is a 200
GetData(source, ok) ==
    LET cached == load_cached_data(cacheFile[source], clock, max_age_hours(source)) IN
    /\ IF cached # NoData
       THEN /\ ok
            /\ cacheServed' = [origin |-> "cache", source |-> source,
                               stamped |-> cached.stamped,
                               age |-> clock - cached.cached_at,
                               request_sent |-> FALSE]
            /\ UNCHANGED cacheFile
       ELSE IF ok
       THEN /\ cacheFile' = [cacheFile EXCEPT ![source] = save_to_cache(clock)]
            /\ cacheServed' = [origin |-> "network", source |-> source,
                               stamped |-> TRUE, age |-> 0, request_sent |-> TRUE]
       ELSE /\ cacheServed' = [origin |-> "none", source |-> source,
                               stamped |-> FALSE, age |-> 0, request_sent |-> TRUE]
            /\ UNCHANGED cacheFile
    /\ UNCHANGED <<clock, ticks>>
    /\ UNCHANGED nonCacheVars

InitCache == CacheInit /\ PoolIdle /\ AirIdle /\ CleanIdle /\ TransformIdle /\ LoadIdle /\ RaceIdle

NextCache ==
    \/ \E h \in TickHours : Tick(h)
    \/ \E source \in CachedSources, ok \in BOOLEAN : GetData(source, ok)

SpecCache == InitCache /\ [][NextCache]_vars

(***************************************************************************)
(* Cleaners.  Numbers are fixed-point: a numeric cell holds thousandths    *)
(* (55.0 is 55000), NaN is the cell without a value.                       *)
(***************************************************************************)
\* np.nan / None in a numeric cell
NaN == -999999999

\* a numeric cell holding text that pd.to_numeric cannot read
BadText == -999999998

\* scale of a numeric cell: thousandths
Unit == 1000

notnull(x) == x # NaN

\* F(x), with x evaluated once
Bind(x, F(_)) == CHOOSE y \in {F(v) : v \in {x}} : TRUE

\* the rows of seq whose index satisfies Keep, in order
FilterIdx(seq, Keep(_)) ==
    LET F[i \in 0 .. Len(seq)] ==
            IF i = 0 THEN << >>
            ELSE IF Keep(i) THEN Append(F[i - 1], seq[i]) ELSE F[i - 1]
    IN F[Len(seq)]

\* the non-null values of a column
Values(rows, col) ==
    LET F[i \in 0 .. Len(rows)] ==
            IF i = 0 THEN << >>
            ELSE IF notnull(rows[i][col]) THEN Append(F[i - 1], rows[i][col]) ELSE F[i - 1]
    IN F[Len(rows)]

\* ascending sort: the element of rank r goes to position r
SortedValue(seq) ==
    LET Rank(i) == 1 + Cardinality({j \in 1 .. Len(seq) :
                        seq[j] < seq[i] \/ (seq[j] = seq[i] /\ j < i)})
    IN [r \in 1 .. Len(seq) |-> seq[CHOOSE i \in 1 .. Len(seq) : Rank(i) = r]]

Sorted(seq) == Bind(seq, SortedValue)

RECURSIVE Sum(_)
Sum(seq) == IF seq = << >> THEN 0 ELSE Head(seq) + Sum(Tail(seq))

\* Series.median(): NaN skipped, NaN for an empty column, the mean of the
\* two middle values for an even count
MedianOf(v) ==
    LET n == Len(v)
    IN IF n = 0 THEN NaN
       ELSE IF n % 2 = 1 THEN v[(n + 1) \div 2]
       ELSE (v[n \div 2] + v[n \div 2 + 1]) \div 2

median(rows, col) == Bind(Sorted(Values(rows, col)), MedianOf)

\* Series.mean(): NaN skipped, NaN for an empty column
mean(rows, col) ==
    LET v == Values(rows, col)
    IN IF v = << >> THEN NaN ELSE Sum(v) \div Len(v)

\* Series.quantile(0.999), linear interpolation between the two order
\* statistics around position 0.999 * (n - 1); the result is in millionths.
\* NaN for an empty column.
Quantile999Of(v) ==
    LET n    == Len(v)
        pos  == 999 * (n - 1)
        lo   == pos \div 1000 + 1
        frac == pos % 1000
        hi   == IF lo < n THEN lo + 1 ELSE lo
    IN IF n = 0 THEN NaN
       ELSE v[lo] * 1000 + frac * (v[hi] - v[lo])

quantile999(rows, col) == Bind(Sorted(Values(rows, col)), Quantile999Of)

\* round(2) of a non-negative value given in millionths, half to even;
\* the result is in thousandths again
round2(micro) ==
    LET q == micro \div 10000
        r == micro % 10000
        c == IF r < 5000 THEN q
             ELSE IF r > 5000 THEN q + 1
             ELSE IF q % 2 = 0 THEN q ELSE q + 1
    IN c * 10

\* clip(lower=0, upper=q).round(2) of one cell; a NaN bound does not bind
ClipRound(x, q) ==
    IF x = NaN THEN NaN
    ELSE LET xm == x * 1000
             lo == IF xm < 0 THEN 0 ELSE xm
             up == IF q # NaN /\ lo > q THEN q ELSE lo
         IN round2(up)

\* df[col] = f(df[col]) cell by cell
MapCol(rows, col, f(_)) ==
    [i \in 1 .. Len(rows) |-> [rows[i] EXCEPT ![col] = f(rows[i][col])]]

\* a fill that blanks the cells that had a value
fillnaBlanking(rows, col, value) ==
    LET Fill(v) == [i \in 1 .. Len(rows) |->
                      [rows[i] EXCEPT ![col] = IF rows[i][col] = NaN THEN v ELSE NaN]]
    IN Bind(value, Fill)

\* fillna(value)
fillna(rows, col, value) ==
    LET Fill(v) == [i \in 1 .. Len(rows) |->
                      [rows[i] EXCEPT ![col] = IF rows[i][col] = NaN THEN v ELSE rows[i][col]]]
    IN Bind(value, Fill)

\* drop_duplicates(subset=...): the first row of every key is kept
drop_duplicates(rows, Key(_)) ==
    LET First(i) == \A j \in 1 .. i - 1 : Key(rows[j]) # Key(rows[i])
    IN FilterIdx(rows, First)

(***************************************************************************)
(* Text and time cells                                                     *)
(***************************************************************************)
\* a text cell without a value
NoText == "nan"

\* str.lower().str.strip() on the names that occur
LowerStrip(s) ==
    CASE s = "Hanoi"   -> "hanoi"
      [] s = " Hanoi " -> "hanoi"
      [] s = "Da Nang" -> "da nang"
      [] s = "HCMC"    -> "hcmc"
      [] s = "Clouds"  -> "clouds"
      [] s = "Clear"   -> "clear"
      [] OTHER         -> s

\* str.strip() on the names that occur
Strip(s) == IF s = " Hanoi " THEN "Hanoi" ELSE s

\* the timestamp texts that parse, one per instant
Instants == <<"2024-01-01 00:00:00", "2024-01-01 01:00:00", "2024-01-01 02:00:00",
              "2024-01-01 03:00:00", "2024-01-01 04:00:00">>

\* pd.to_datetime(errors='coerce') followed by its canonical rendering:
\* NaT for what does not parse
to_datetime(s) ==
    IF s \in {Instants[k] : k \in 1 .. Len(Instants)} THEN s ELSE NoText

(***************************************************************************)
(* Air cleaner: clean_data                                                 *)
(***************************************************************************)
\* the numeric columns of the modelled frame, in the order of numeric_cols
AirNumericCols == <<"aqi", "pm25", "humidity">>

\* min_thresholds['pm25']
min_pm25 == 5 * Unit

min_aqi == 10 * Unit

max_aqi == 500 * Unit

\* one column through fillna(median)
FillMedian(rows, col) == fillna(rows, col, median(rows, col))

\* one column through clip(lower=0, upper=quantile(0.999)).round(2)
ClipColumn(rows, col) ==
    LET Clip(q) == [i \in 1 .. Len(rows) |->
                      [rows[i] EXCEPT ![col] = ClipRound(rows[i][col], q)]]
    IN Bind(quantile999(rows, col), Clip)

\* for col in cols: rows = Step(rows, col)
OverCols(rows, cols, Step(_, _)) ==
    LET F[i \in 0 .. Len(cols)] ==
            IF i = 0 THEN rows
            ELSE LET StepCol(r) == Step(r, cols[i]) IN Bind(F[i - 1], StepCol)
    IN F[Len(cols)]

\* x <= min_val is replaced by min_val
RaiseToThreshold(x) == IF notnull(x) /\ x <= min_pm25 THEN min_pm25 ELSE x

\* a value outside [min_aqi, max_aqi] becomes NaN
AqiOutOfRangeToNaN(x) == IF notnull(x) /\ (x < min_aqi \/ x > max_aqi) THEN NaN ELSE x

\* a coordinate outside [-90, 90] becomes NaN
ValidLatitude(x) == IF notnull(x) /\ -90 * Unit <= x /\ x <= 90 * Unit THEN x ELSE NaN

\* groupby('city')['latitude'].transform(lambda x: x.fillna(x.mean()))
FillLatitudeByCity(rows) ==
    [i \in 1 .. Len(rows) |->
        LET SameCity(j) == rows[j].city = rows[i].city
        IN [rows[i] EXCEPT !.latitude =
               IF rows[i].latitude = NaN
               THEN mean(FilterIdx(rows, SameCity), "latitude")
               ELSE rows[i].latitude]]

WholeRow(r) == r

\* the text columns of the modelled frame, in the order of categorical_cols
AirCategoricalCols == <<"city", "province", "source", "weather_condition">>

UnknownCity(s) == IF s = NoText THEN "unknown" ELSE s

\* fillna('unknown') of one categorical column
FillUnknown(rows, col) == MapCol(rows, col, UnknownCity)

\* str.lower().str.strip() of one categorical column
LowerCol(rows, col) == MapCol(rows, col, LowerStrip)

\* weather_mapping, after lower/strip with '' read as 'unknown'
weather_mapping(s) ==
    LET w == LowerStrip(s)
    IN CASE w = "clouds" -> "cloudy"
         [] w = ""       -> "unknown"
         [] w = NoText   -> "unknown"
         [] OTHER        -> w

\* numeric columns through fillna(median): line 261
AirFillNumeric(d) == OverCols(d, AirNumericCols, FillMedian)

\* the frame the AQI range rule leaves: lines 262-284
AirRanged(d) ==
    LET Named(x)  == OverCols(x, AirCategoricalCols, FillUnknown)
        Raised(x) == MapCol(x, "pm25", RaiseToThreshold)
        Ranged(x) == MapCol(x, "aqi", AqiOutOfRangeToNaN)
    IN Bind(Bind(Bind(d, Named), Raised), Ranged)

\* df['aqi'].fillna(median_aqi): lines 285-286
AirFillAqi(d) == FillMedian(d, "aqi")

\* the steps of clean_data, each applied to the frame the one before left
clean_data(df) ==
    LET Clipped(d)  == OverCols(d, AirNumericCols, ClipColumn)
        Timed(d)    == MapCol(d, "timestamp", to_datetime)
        Weather(d)  == MapCol(d, "weather_condition", weather_mapping)
        Lowered(d)  == OverCols(d, AirCategoricalCols, LowerCol)
        Distinct(d) == drop_duplicates(d, WholeRow)
        Valid(d)    == MapCol(d, "latitude", ValidLatitude)
    IN Bind(Bind(Bind(Bind(Bind(Bind(Bind(Bind(Bind(Bind(df,
            AirFillNumeric), AirRanged), AirFillAqi), Clipped), Timed), Weather), Lowered),
            Distinct), Valid), FillLatitudeByCity)

(***************************************************************************)
(* Climate and soil cleaners: clean_climate_df, clean_soil_df              *)
(***************************************************************************)
\* the frame has a 'success' column when some record carried the key
HasSuccess(df) == \E i \in 1 .. Len(df) : df[i].success # NoText

\* df[df["success"] == True]
SuccessOnly(df) ==
    LET Ok(i) == df[i].success = "True"
    IN IF HasSuccess(df) THEN FilterIdx(df, Ok) ELSE df

LocationAndTimestamp(r) == <<r.location, r.timestamp>>

\* df[df[col].notnull()] for a text column and for a numeric one
RequireText(df, col) ==
    LET Ok(i) == df[i][col] # NoText
    IN FilterIdx(df, Ok)

RequireNumber(df, col) ==
    LET Ok(i) == df[i][col] # NaN
    IN FilterIdx(df, Ok)

\* pd.to_numeric(errors="coerce")
to_numeric(x) == IF x = BadText THEN NaN ELSE x

\* Series.clip(lower, upper), bounds in whole units
clip(x, lower, upper) ==
    IF x = NaN THEN NaN
    ELSE IF x < lower * Unit THEN lower * Unit
    ELSE IF x > upper * Unit THEN upper * Unit
    ELSE x

ClipCoordinate(x) == clip(to_numeric(x), -180, 180)

ClipTemperature(x) == clip(to_numeric(x), -100, 100)

ClipHumidity(x) == clip(to_numeric(x), 0, 100)

\* astype(str).str.strip() with "nan", "None" and "" turned into None
CleanText(s) == IF s \in {"nan", "None", ""} THEN NoText ELSE Strip(s)

\* pd.to_datetime(df["timestamp"], errors="coerce")
ParseTimestamp(df) == MapCol(df, "timestamp", to_datetime)

\* df[df["timestamp"].notnull()]
RequireTimestamp(df) == RequireText(df, "timestamp")

\* df[(df["humidity"] >= 0) & (df["humidity"] <= 100)]
HumidityInRange(df) ==
    LET Ok(i) == df[i].humidity # NaN /\ 0 <= df[i].humidity /\ df[i].humidity <= 100 * Unit
    IN FilterIdx(df, Ok)

\* values np.random.uniform(8, 23) is let to take
RandomLatitudes == {8 * Unit, 23 * Unit}

\* df["lat"].fillna(random_lat): row i gets the i-th drawn value
FillRandomLat(df, random_lat) ==
    [i \in 1 .. Len(df) |->
        [df[i] EXCEPT !.lat = IF df[i].lat = NaN THEN random_lat[i] ELSE df[i].lat]]

FillProvince(df) ==
    [i \in 1 .. Len(df) |->
        [df[i] EXCEPT !.province =
            IF df[i].province = NoText THEN "Unknown Province" ELSE df[i].province]]

\* df["country"].fillna("VN")
FillCountry(df) ==
    [i \in 1 .. Len(df) |->
        [df[i] EXCEPT !.country = IF df[i].country = NoText THEN "VN" ELSE df[i].country]]

\* df["data_type"].fillna("Unknown Type")
FillDataType(df) ==
    [i \in 1 .. Len(df) |->
        [df[i] EXCEPT !.data_type =
            IF df[i].data_type = NoText THEN "Unknown Type" ELSE df[i].data_type]]

\* for col in required_cols: df = df[df[col].notnull()]
Require(df, col) ==
    IF col \in {"lat", "temperature"} THEN RequireNumber(df, col) ELSE RequireText(df, col)

\* the per-column step of the float_cols loop
ClimateNumeric(df, col) ==
    CASE col = "temperature" -> MapCol(df, col, ClipTemperature)
      [] col = "humidity"    -> MapCol(df, col, ClipHumidity)
      [] col = "lat"         -> MapCol(df, col, ClipCoordinate)

CleanTextCol(df, col) == MapCol(df, col, CleanText)

\* the steps of clean_climate_df, each applied to the frame the one before left
clean_climate_df(df, random_lat) ==
    LET Distinct(d) == drop_duplicates(d, LocationAndTimestamp)
        Required(d) == OverCols(d, <<"location", "province", "lat", "timestamp", "temperature">>,
                                Require)
        Numeric(d)  == OverCols(d, <<"temperature", "humidity", "lat">>, ClimateNumeric)
        Text(d)     == OverCols(d, <<"location", "province", "country">>, CleanTextCol)
        Measured(d) == RequireNumber(d, "temperature")
        Located(d)  == FillRandomLat(d, random_lat)
    IN Bind(Bind(Bind(Bind(Bind(Bind(Bind(Bind(Bind(Bind(Bind(Bind(df,
            SuccessOnly), Distinct), Required), Numeric), Text), ParseTimestamp),
            RequireTimestamp), Measured), HumidityInRange), Located), FillProvince),
            FillCountry)

SoilNumeric(df, col) == MapCol(df, col, to_numeric)

\* the steps of clean_soil_df, each applied to the frame the one before left
clean_soil_df(df, random_lat) ==
    LET Distinct(d) == drop_duplicates(d, LocationAndTimestamp)
        Required(d) == OverCols(d, <<"location", "province", "lat", "timestamp">>, Require)
        Numeric(d)  == OverCols(d, <<"lat", "soil_moisture_0_1cm">>, SoilNumeric)
        Text(d)     == OverCols(d, <<"location", "province", "data_type">>, CleanTextCol)
        Located(d)  == FillRandomLat(d, random_lat)
    IN Bind(Bind(Bind(Bind(Bind(Bind(Bind(Bind(Bind(Bind(df,
            SuccessOnly), Distinct), Required), Numeric), Text), ParseTimestamp),
            RequireTimestamp), Located), FillProvince), FillDataType)

(***************************************************************************)
(* Water cleaner: clean_water_df                                           *)
(***************************************************************************)
\* values random.uniform(50, 95) is let to take
RandomScores == {50 * Unit, 95 * Unit}

\* important_cols, as far as the modelled frame has them
WaterImportantCols == <<"lat", "annual_rainfall_mm", "estimated_water_quality_score">>

ClipRainfall(x) == clip(to_numeric(x), 0, 10000)

ClipScore(x) == clip(to_numeric(x), 0, 100)

\* fillna(0.0), the float_defaults of the rainfall columns
ZeroDefault(x) == IF x = NaN THEN 0 ELSE x

\* the per-column step of the float_cols loop
WaterNumeric(df, col) ==
    CASE col = "lat" -> MapCol(df, col, ClipCoordinate)
      [] col = "annual_rainfall_mm" ->
            LET Defaulted(d) == MapCol(d, col, ZeroDefault)
            IN Bind(MapCol(df, col, ClipRainfall), Defaulted)
      [] col = "estimated_water_quality_score" -> MapCol(df, col, ClipScore)

\* df["region"].fillna("Unknown Region")
FillRegion(df) ==
    [i \in 1 .. Len(df) |->
        [df[i] EXCEPT !.region =
            IF df[i].region = NoText THEN "Unknown Region" ELSE df[i].region]]

\* the frame before the fills: filters, coercion, clipping, text and time
WaterPrepared(df) ==
    LET Distinct(d) == drop_duplicates(d, LocationAndTimestamp)
        Required(d) == OverCols(d, <<"location", "province", "lat", "timestamp">>, Require)
        Numeric(d)  == OverCols(d, WaterImportantCols, WaterNumeric)
        Text(d)     == OverCols(d, <<"location", "province", "region">>, CleanTextCol)
    IN Bind(Bind(Bind(Bind(Bind(Bind(Bind(df,
            SuccessOnly), Distinct), Required), Numeric), Text), ParseTimestamp),
            RequireTimestamp)

\* df[col].isnull().sum()
NullCount(df, col) == Cardinality({i \in 1 .. Len(df) : df[i][col] = NaN})

\* (null_ratio > 0.3).any(), the ratio being 0 for an empty frame
TooManyNulls(df) ==
    \E k \in 1 .. Len(WaterImportantCols) :
        10 * NullCount(df, WaterImportantCols[k]) > 3 * Len(df)

\* sim[col] of simulate_water_row for a null cell of an important column
simulate_water_row(col, lat, score) ==
    CASE col = "lat"                           -> lat
      [] col = "annual_rainfall_mm"            -> 1500 * Unit
      [] col = "estimated_water_quality_score" -> score

\* the iterrows loop: every null cell of an important column is simulated
SimulateNulls(df, random_lat, random_score) ==
    IF TooManyNulls(df)
    THEN [i \in 1 .. Len(df) |->
            [c \in DOMAIN df[i] |->
                IF c \in {WaterImportantCols[k] : k \in 1 .. Len(WaterImportantCols)}
                   /\ df[i][c] = NaN
                THEN simulate_water_row(c, random_lat[i], random_score[i])
                ELSE df[i][c]]]
    ELSE df

\* the fills of clean_water_df, applied to the prepared frame
WaterImputed(df, random_lat, random_score) ==
    LET Located(d)   == FillRandomLat(d, random_lat)
        Simulated(d) == SimulateNulls(d, random_lat, random_score)
    IN Bind(Bind(Bind(Bind(df, Located), FillProvince), FillRegion), Simulated)

clean_water_df(df, random_lat, random_score) ==
    LET Imputed(d) == WaterImputed(d, random_lat, random_score)
    IN Bind(WaterPrepared(df), Imputed)

(***************************************************************************)
(* The cleaners applied to bounded batches                                 *)
(***************************************************************************)
\* rows of a drawn batch
MaxRows == 3

AirBase ==
    [city |-> "Hanoi", province |-> "Hanoi", source |-> "waqi",
     weather_condition |-> "Clouds", timestamp |-> Instants[1], aqi |-> 55 * Unit,
     pm25 |-> 20 * Unit, humidity |-> 70 * Unit, latitude |-> 21 * Unit]

\* air readings: the base row and rows differing from it in one cell
AirRows ==
    {AirBase}
    \cup {[AirBase EXCEPT !.aqi = v] : v \in {5 * Unit, 600 * Unit, 120 * Unit, NaN}}
    \cup {[AirBase EXCEPT !.humidity = v] : v \in {150 * Unit, NaN}}
    \cup {[AirBase EXCEPT !.latitude = 95 * Unit]}
    \cup {[AirBase EXCEPT !.pm25 = 3 * Unit]}
    \cup {[AirBase EXCEPT !.city = v] : v \in {" Hanoi ", "Da Nang"}}
    \cup {[AirBase EXCEPT !.timestamp = "not a time"]}

\* five readings of one city at five instants with the given AQI values
AqiSeries(values) ==
    [i \in 1 .. Len(values) |-> [AirBase EXCEPT !.aqi = values[i], !.timestamp = Instants[i]]]

\* the worked example of the AQI rule: [5, 55, 600, null, 120]
AqiExample == <<5 * Unit, 55 * Unit, 600 * Unit, NaN, 120 * Unit>>

ClimateBase ==
    [success |-> "True", location |-> "Hanoi", province |-> "Hanoi", country |-> "VN",
     lat |-> 21 * Unit, timestamp |-> Instants[1], temperature |-> 30 * Unit,
     humidity |-> 70 * Unit]

ClimateRows ==
    {ClimateBase}
    \cup {[ClimateBase EXCEPT !.success = v] : v \in {"False", NoText}}
    \cup {[ClimateBase EXCEPT !.location = " Hanoi "]}
    \cup {[ClimateBase EXCEPT !.province = ""]}
    \cup {[ClimateBase EXCEPT !.lat = v] : v \in {120 * Unit, BadText}}
    \cup {[ClimateBase EXCEPT !.timestamp = v] : v \in {Instants[2], "not a time"}}
    \cup {[ClimateBase EXCEPT !.temperature = NaN]}
    \cup {[ClimateBase EXCEPT !.humidity = v] : v \in {150 * Unit, NaN}}

SoilBase ==
    [success |-> NoText, location |-> "Hanoi", province |-> "Hanoi",
     data_type |-> "realtime_soil", lat |-> 21 * Unit,
     timestamp |-> Instants[1], soil_moisture_0_1cm |-> 300]

SoilRows ==
    {SoilBase}
    \cup {[SoilBase EXCEPT !.success = v] : v \in {"False", "True"}}
    \cup {[SoilBase EXCEPT !.location = " Hanoi "]}
    \cup {[SoilBase EXCEPT !.province = ""]}
    \cup {[SoilBase EXCEPT !.lat = v] : v \in {500 * Unit, BadText}}
    \cup {[SoilBase EXCEPT !.timestamp = v] : v \in {Instants[2], "not a time"}}
    \cup {[SoilBase EXCEPT !.soil_moisture_0_1cm = BadText]}

RowsOf(d) == CASE d = "air" -> AirRows [] d = "climate" -> ClimateRows [] d = "soil" -> SoilRows

\* all batches of at most n rows
Batches(rows, n) == UNION {[1 .. k -> rows] : k \in 0 .. n}

\* one run of a domain's cleaner
CleanDf(d, df, random_lat) ==
    CASE d = "air"     -> clean_data(df)
      [] d = "climate" -> clean_climate_df(df, random_lat)
      [] d = "soil"    -> clean_soil_df(df, random_lat)

CleanInit ==
    /\ cleanDomain \in {"air", "climate", "soil"}
    /\ rawBatch \in Batches(RowsOf(cleanDomain), MaxRows)
                    \cup (IF cleanDomain = "air" THEN {AqiSeries(AqiExample)} ELSE {})
    /\ cleaned = << >> /\ recleaned = << >>
    /\ cleanPc = "raw"

\* the cleaner runs on the raw batch
Clean(random_lat) ==
    /\ cleanPc = "raw"
    /\ cleaned' = CleanDf(cleanDomain, rawBatch, random_lat)
    /\ cleanPc' = "cleaned"
    /\ UNCHANGED <<cleanDomain, rawBatch, recleaned>>
    /\ UNCHANGED nonCleanVars

\* the cleaner runs again, on its own output
Reclean(random_lat) ==
    /\ cleanPc = "cleaned"
    /\ recleaned' = CleanDf(cleanDomain, cleaned, random_lat)
    /\ cleanPc' = "recleaned"
    /\ UNCHANGED <<cleanDomain, rawBatch, cleaned>>
    /\ UNCHANGED nonCleanVars

InitClean == CleanInit /\ PoolIdle /\ AirIdle /\ CacheIdle /\ TransformIdle /\ LoadIdle /\ RaceIdle

NextClean ==
    \/ \E random_lat \in [1 .. Len(rawBatch) -> RandomLatitudes] : Clean(random_lat)
    \/ \E random_lat \in [1 .. Len(cleaned) -> RandomLatitudes] : Reclean(random_lat)

SpecClean == InitClean /\ [][NextClean]_vars

(***************************************************************************)
(* Dimensional transforms: transform_data, transform_*_3nf                 *)
(***************************************************************************)
\* a foreign key without a value (dict.get / Series.map finding nothing)
NoId == NaN

\* df[cols].drop_duplicates().reset_index(drop=True).assign(id=index + 1):
\* the distinct tuples of the columns in first-seen order, numbered from 1
Dimension(df, cols, id) ==
    LET Tuple(r) == [c \in cols |-> r[c]]
        Numbered(d) == [k \in 1 .. Len(d) |->
                          [c \in cols \cup {id} |-> IF c = id THEN k ELSE d[k][c]]]
    IN Bind(drop_duplicates(df, Tuple), Numbered)

\* a lookup that answers with the first dimension row whatever the keys are
LookupIgnoringKeys(table, keys, id, r) ==
    IF table = << >> THEN NoId ELSE table[1][id]

\* set_index(keys)[id].to_dict() looked up with the keys of row r: a later
\* dimension row with the same keys overwrites the entry of an earlier one
Lookup(table, keys, id, r) ==
    LET hits == {k \in 1 .. Len(table) : \A c \in keys : table[k][c] = r[c]}
    IN IF hits = {} THEN NoId
       ELSE table[CHOOSE k \in hits : \A j \in hits : j <= k][id]

\* the dimension tables of a domain: the columns each is built from, the
\* columns its lookup is indexed by, and its surrogate key column
Dimensions(d) ==
    CASE d = "air" ->
            << [name |-> "City", cols |-> {"city", "province", "latitude"},
                keys |-> {"city", "province"}, id |-> "city_id"],
               [name |-> "Source", cols |-> {"source"},
                keys |-> {"source"}, id |-> "source_id"],
               [name |-> "WeatherCondition", cols |-> {"weather_condition"},
                keys |-> {"weather_condition"}, id |-> "condition_id"] >>
      [] d = "climate" ->
            << [name |-> "Province", cols |-> {"province", "country"},
                keys |-> {"province"}, id |-> "province_id"],
               [name |-> "Country", cols |-> {"country"},
                keys |-> {"country"}, id |-> "country_id"],
               [name |-> "Location", cols |-> {"location", "province", "lat", "country"},
                keys |-> {"location", "province"}, id |-> "location_id"] >>
      [] d = "soil" ->
            << [name |-> "Province", cols |-> {"province"},
                keys |-> {"province"}, id |-> "province_id"],
               [name |-> "Location", cols |-> {"location", "province", "lat"},
                keys |-> {"location", "province"}, id |-> "location_id"],
               [name |-> "SoilType", cols |-> {"data_type"},
                keys |-> {"data_type"}, id |-> "soil_type_id"] >>
      [] d = "water" ->
            << [name |-> "Province", cols |-> {"province", "region"},
                keys |-> {"province"}, id |-> "province_id"],
               [name |-> "Region", cols |-> {"region"},
                keys |-> {"region"}, id |-> "region_id"],
               [name |-> "Location", cols |-> {"location", "province", "lat", "region"},
                keys |-> {"location", "province"}, id |-> "location_id"] >>

\* the measurement columns the fact table keeps
Measures(d) ==
    CASE d = "air"     -> {"aqi", "pm25", "humidity"}
      [] d = "climate" -> {"temperature", "humidity"}
      [] d = "soil"    -> {"soil_moisture_0_1cm"}
      [] d = "water"   -> {"annual_rainfall_mm", "estimated_water_quality_score"}

\* the columns the transform indexes without a guard
IndexedCols(d) ==
    IF d = "air"
    THEN {"city", "province", "latitude", "source", "weather_condition", "timestamp"}
             \cup Measures(d)
    ELSE {}

\* the tables of one domain: every dimension, then the fact table, whose
\* i-th row is the i-th row of df with its keys replaced by surrogate keys
Tables(d, df) ==
    LET dims == Dimensions(d)
        Built(k) == Dimension(df, dims[k].cols, dims[k].id)
        Fact(tables) ==
            [i \in 1 .. Len(df) |->
                [c \in {"timestamp"} \cup Measures(d)
                        \cup {dims[k].id : k \in 1 .. Len(dims)} |->
                    IF \E k \in 1 .. Len(dims) : dims[k].id = c
                    THEN LET k == CHOOSE k \in 1 .. Len(dims) : dims[k].id = c
                         IN Lookup(tables[k], dims[k].keys, c, df[i])
                    ELSE df[i][c]]]
        Result(tables) == [raised |-> FALSE, dims |-> tables, fact |-> Fact(tables)]
    IN Bind([k \in 1 .. Len(dims) |-> Built(k)], Result)

\* what a transform that raised leaves
Raised == [raised |-> TRUE, dims |-> << >>, fact |-> << >>]

\* air: df[[...]] raises KeyError when one of its columns is absent
transform_data(df, absent) ==
    IF absent \cap IndexedCols("air") # {} THEN Raised ELSE Tables("air", df)

transform_climate_3nf(df) == Tables("climate", df)

transform_soil_3nf(df) == Tables("soil", df)

transform_water_3nf(df) == Tables("water", df)

\* clean, then transform, as every load path does
CleanOf(d, df, random_lat, random_score) ==
    CASE d = "air"     -> clean_data(df)
      [] d = "climate" -> clean_climate_df(df, random_lat)
      [] d = "soil"    -> clean_soil_df(df, random_lat)
      [] d = "water"   -> clean_water_df(df, random_lat, random_score)

TransformOf(d, df, absent) ==
    CASE d = "air"     -> transform_data(df, absent)
      [] d = "climate" -> transform_climate_3nf(df)
      [] d = "soil"    -> transform_soil_3nf(df)
      [] d = "water"   -> transform_water_3nf(df)

(***************************************************************************)
(* Clean + transform applied to bounded batches                            *)
(***************************************************************************)
\* rows of a drawn batch of the pipeline
MaxBatch == 2

WaterBase ==
    [success |-> NoText, location |-> "Hanoi", province |-> "Hanoi", region |-> "north",
     lat |-> 21 * Unit, timestamp |-> Instants[1], annual_rainfall_mm |-> 1800 * Unit,
     estimated_water_quality_score |-> 70 * Unit]

\* raw readings handed to a pipeline: a base row and rows differing from it
\* in one reading, one key or one attribute
PipelineRows(d) ==
    CASE d = "air" ->
            {AirBase}
            \cup {[AirBase EXCEPT !.latitude = 22 * Unit]}
            \cup {[AirBase EXCEPT !.timestamp = "not a time"]}
            \cup {[AirBase EXCEPT !.city = "Da Nang", !.province = "Da Nang"]}
            \cup {[AirBase EXCEPT !.aqi = v] : v \in {NaN, 600 * Unit}}
            \cup {[AirBase EXCEPT !.source = "openweathermap", !.weather_condition = "Clear"]}
      [] d = "climate" ->
            {ClimateBase}
            \cup {[ClimateBase EXCEPT !.lat = 22 * Unit, !.timestamp = Instants[2]]}
            \cup {[ClimateBase EXCEPT !.province = NoText]}
            \cup {[ClimateBase EXCEPT !.country = NoText, !.timestamp = Instants[2]]}
            \cup {[ClimateBase EXCEPT !.timestamp = "not a time"]}
            \cup {[ClimateBase EXCEPT !.location = "Da Nang", !.province = "Da Nang"]}
            \cup {[ClimateBase EXCEPT !.success = "False"]}
      [] d = "soil" ->
            {SoilBase}
            \cup {[SoilBase EXCEPT !.lat = 22 * Unit, !.timestamp = Instants[2]]}
            \cup {[SoilBase EXCEPT !.location = "HCMC", !.province = "HCMC"]}
            \cup {[SoilBase EXCEPT !.location = "Hue", !.province = NoText]}
            \cup {[SoilBase EXCEPT !.data_type = NoText, !.timestamp = Instants[2]]}
            \cup {[SoilBase EXCEPT !.timestamp = "not a time"]}
            \cup {[SoilBase EXCEPT !.success = "False"]}
      [] d = "water" ->
            {WaterBase}
            \cup {[WaterBase EXCEPT !.estimated_water_quality_score = v] :
                      v \in {NaN, 150 * Unit}}
            \cup {[WaterBase EXCEPT !.region = v, !.timestamp = Instants[2]] :
                      v \in {NoText, "central"}}
            \cup {[WaterBase EXCEPT !.lat = BadText]}
            \cup {[WaterBase EXCEPT !.timestamp = "not a time"]}

\* the worked example of the dimension assignment: four soil rows whose
\* provinces are Hanoi, Hanoi, HCMC and null
ProvinceExample ==
    << SoilBase,
       [SoilBase EXCEPT !.timestamp = Instants[2]],
       [SoilBase EXCEPT !.location = "HCMC", !.province = "HCMC"],
       [SoilBase EXCEPT !.location = "Hue", !.province = NoText] >>

\* four water readings of Hanoi at four instants, the first with a latitude
\* that does not parse: a null fraction of 25% in one important field
QuarterNullExample ==
    [i \in 1 .. 4 |->
        [WaterBase EXCEPT !.timestamp = Instants[i],
                          !.lat = IF i = 1 THEN BadText ELSE WaterBase.lat]]

\* columns a crawl's CSV may lack: only OpenWeatherMap records carry
\* weather_condition
AbsentColumns(d) == IF d = "air" THEN {{}, {"weather_condition"}} ELSE {{}}

\* the random draws of one cleaner run, one per row of the frame
LatDraws(df) == [1 .. Len(df) -> RandomLatitudes]

ScoreDraws(d, df) ==
    IF d = "water" THEN [1 .. Len(df) -> RandomScores]
    ELSE {[i \in 1 .. Len(df) |-> 50 * Unit]}

\* the frames before and after each imputation of a cleaner run, with the
\* columns the imputation is about
ImputationSteps(d, df, random_lat, random_score) ==
    CASE d = "air" ->
            LET Second(f) == [before |-> f, after |-> AirFillAqi(f), cols |-> AirNumericCols]
            IN << [before |-> df, after |-> AirFillNumeric(df), cols |-> AirNumericCols],
                  Bind(AirRanged(AirFillNumeric(df)), Second) >>
      [] d = "water" ->
            LET Step(f) == [before |-> f,
                            after  |-> WaterImputed(f, random_lat, random_score),
                            cols   |-> WaterImportantCols]
            IN << Bind(WaterPrepared(df), Step) >>
      [] OTHER -> << >>

TransformInit ==
    /\ tfDomain \in {"air", "climate", "soil", "water"}
    /\ tfAbsent \in AbsentColumns(tfDomain)
    /\ tfRaw \in (Batches(PipelineRows(tfDomain), MaxBatch)
                      \ (IF tfDomain = "air" THEN {<< >>} ELSE {}))
                  \cup (IF tfDomain = "soil" THEN {ProvinceExample} ELSE {})
                  \cup (IF tfDomain = "water" THEN {QuarterNullExample} ELSE {})
    /\ tfClean = << >> /\ tfSteps = << >> /\ tfTables = << >>
    /\ tfPc = "raw"

\* the cleaner runs on the raw frame
CleanBatch(random_lat, random_score) ==
    /\ tfPc = "raw"
    /\ tfClean' = CleanOf(tfDomain, tfRaw, random_lat, random_score)
    /\ tfSteps' = ImputationSteps(tfDomain, tfRaw, random_lat, random_score)
    /\ tfPc' = "cleaned"
    /\ UNCHANGED <<tfDomain, tfAbsent, tfRaw, tfTables>>
    /\ UNCHANGED nonTransformVars

\* the transform runs on the cleaned frame
TransformBatch ==
    /\ tfPc = "cleaned"
    /\ tfTables' = TransformOf(tfDomain, tfClean, tfAbsent)
    /\ tfPc' = "transformed"
    /\ UNCHANGED <<tfDomain, tfAbsent, tfRaw, tfClean, tfSteps>>
    /\ UNCHANGED nonTransformVars

InitTransform ==
    TransformInit /\ PoolIdle /\ AirIdle /\ CacheIdle /\ CleanIdle /\ LoadIdle /\ RaceIdle

NextTransform ==
    \/ \E random_lat \in LatDraws(tfRaw), random_score \in ScoreDraws(tfDomain, tfRaw) :
          CleanBatch(random_lat, random_score)
    \/ TransformBatch

SpecTransform == InitTransform /\ [][NextTransform]_vars

(***************************************************************************)
(* Load paths: clean, transform and write to the SQL store                 *)
(***************************************************************************)
\* load runs made against one store
MaxLoads == 2

\* rows of the batch a load run is handed
MaxLoadRows == 1

\* the HTTP triggers of the four cleaners and the air cleaner's batch main
LoadPaths == {"air_cleaner_api", "main", "clean_climate_data", "clean_soil_data",
              "clean_water_data"}

DomainOf(path) ==
    CASE path \in {"air_cleaner_api", "main"} -> "air"
      [] path = "clean_climate_data"           -> "climate"
      [] path = "clean_soil_data"              -> "soil"
      [] path = "clean_water_data"             -> "water"

StoreDomains == {"air", "climate", "soil", "water"}

\* a table the store does not have yet
NoTable == [exists |-> FALSE, rows |-> << >>]

\* to_sql(if_exists="replace"): the table is dropped and written anew
Replaced(rows) == [exists |-> TRUE, rows |-> rows]

\* to_sql(if_exists="append"): the rows are added to what the table holds
Appended(table, rows) == [exists |-> TRUE, rows |-> table.rows \o rows]

\* the store before any load
EmptyStore ==
    [d \in StoreDomains |->
        [dims |-> [k \in 1 .. Len(Dimensions(d)) |-> NoTable], fact |-> NoTable]]

\* engine.connect() + SELECT 1
Probe(up) == [op |-> "probe", table |-> "-", ok |-> up]

\* the to_sql calls of one load in their order: every dimension table with
\* replace, then the fact table with the given mode
WriteOps(d, fact_mode) ==
    [k \in 1 .. Len(Dimensions(d)) + 1 |->
        IF k <= Len(Dimensions(d))
        THEN [op |-> "replace", table |-> Dimensions(d)[k].name, ok |-> TRUE]
        ELSE [op |-> fact_mode, table |-> "fact", ok |-> TRUE]]

\* the store of a domain after those calls went through
Written(old, tables, fact_mode) ==
    [dims |-> [k \in 1 .. Len(tables.dims) |-> Replaced(tables.dims[k])],
     fact |-> IF fact_mode = "replace" THEN Replaced(tables.fact)
              ELSE Appended(old.fact, tables.fact)]

\* the first to_sql of a path that does not probe, against a store that is
\* down: it raises before anything is written
FailedWrite(d) == [op |-> "replace", table |-> Dimensions(d)[1].name, ok |-> FALSE]

\* the store operations of a run, in order
OpsOf(path, tables, up) ==
    LET d == DomainOf(path)
        fact_mode == IF path = "main" THEN "replace" ELSE "append"
    IN IF tables.raised THEN << >>
       ELSE IF d = "air"
       THEN IF up THEN <<Probe(up)>> \o WriteOps(d, fact_mode) ELSE <<Probe(up)>>
       ELSE IF up THEN WriteOps(d, fact_mode) ELSE <<FailedWrite(d)>>

\* what the caller gets
ResponseOf(path, clean, tables, up) ==
    CASE path = "main" ->
            [status |-> IF tables.raised THEN "raised" ELSE "returned", failure |-> FALSE]
      [] path = "air_cleaner_api" ->
            IF tables.raised \/ ~up
            THEN [status |-> "error", failure |-> TRUE]
            ELSE [status |-> "success", failure |-> FALSE, record_count |-> Len(clean)]
      [] OTHER ->
            IF up THEN [status |-> "200", failure |-> FALSE, total_rows |-> Len(clean)]
            ELSE [status |-> "500", failure |-> TRUE]

LoadInit ==
    /\ store = EmptyStore
    /\ loadRuns = 0
    /\ lastLoad = [path |-> "none"]

\* one run of a load path on a raw frame: clean, transform, then the store
\* operations of the path against a store that is up or down
RunLoad(path, df, absent, up, random_lat, random_score) ==
    LET d == DomainOf(path)
        Run(clean) ==
            LET Finish(tables) ==
                    /\ store' = IF up /\ ~tables.raised
                                THEN [store EXCEPT ![d] =
                                        Written(store[d], tables,
                                                IF path = "main" THEN "replace" ELSE "append")]
                                ELSE store
                    /\ lastLoad' = [path |-> path, raw |-> df, absent |-> absent, up |-> up,
                                    clean |-> clean,
                                    survived |-> Len(clean), raised |-> tables.raised,
                                    ops |-> OpsOf(path, tables, up),
                                    response |-> ResponseOf(path, clean, tables, up),
                                    before |-> store]
            IN \E tables \in {TransformOf(d, clean, absent)} : Finish(tables)
    IN /\ loadRuns < MaxLoads
       /\ loadRuns' = loadRuns + 1
       /\ \E clean \in {CleanOf(d, df, random_lat, random_score)} : Run(clean)
       /\ UNCHANGED nonLoadVars

\* the frames a path may be handed: the air paths read a CSV with rows
LoadBatches(d) ==
    IF d = "air" THEN Batches(PipelineRows(d), MaxLoadRows) \ {<< >>}
    ELSE Batches(PipelineRows(d), MaxLoadRows)

\* POST /air_cleaner
air_cleaner_api(df, absent, up) ==
    \E random_lat \in LatDraws(df), random_score \in ScoreDraws("air", df) :
        RunLoad("air_cleaner_api", df, absent, up, random_lat, random_score)

\* the air cleaner's batch entry point
main(df, absent, up) ==
    \E random_lat \in LatDraws(df), random_score \in ScoreDraws("air", df) :
        RunLoad("main", df, absent, up, random_lat, random_score)

\* POST /clean_climate_data
clean_climate_data(df, up) ==
    \E random_lat \in LatDraws(df), random_score \in ScoreDraws("climate", df) :
        RunLoad("clean_climate_data", df, {}, up, random_lat, random_score)

\* POST /clean_soil_data
clean_soil_data(df, up) ==
    \E random_lat \in LatDraws(df), random_score \in ScoreDraws("soil", df) :
        RunLoad("clean_soil_data", df, {}, up, random_lat, random_score)

\* POST /clean_water_data
clean_water_data(df, up) ==
    \E random_lat \in LatDraws(df), random_score \in ScoreDraws("water", df) :
        RunLoad("clean_water_data", df, {}, up, random_lat, random_score)

InitLoad ==
    LoadInit /\ PoolIdle /\ AirIdle /\ CacheIdle /\ CleanIdle /\ TransformIdle /\ RaceIdle

NextLoad ==
    \/ \E df \in LoadBatches("air"), absent \in AbsentColumns("air"), up \in BOOLEAN :
          air_cleaner_api(df, absent, up)
    \/ \E df \in LoadBatches("air"), absent \in AbsentColumns("air"), up \in BOOLEAN :
          main(df, absent, up)
    \/ \E df \in LoadBatches("climate"), up \in BOOLEAN : clean_climate_data(df, up)
    \/ \E df \in LoadBatches("soil"), up \in BOOLEAN : clean_soil_data(df, up)
    \/ \E df \in LoadBatches("water"), up \in BOOLEAN : clean_water_data(df, up)

SpecLoad == InitLoad /\ [][NextLoad]_vars

(***************************************************************************)
(* Worker tasks sharing one cache file: load_cached_data and save_to_cache *)
(* of the same (source, lat, lon), step by step, without any lock          *)
(***************************************************************************)
\* tasks that use the same cache key at the same time
MaxRaceTasks == 2

\* keys a fetched payload may hold besides cached_at
MaxFields == 2

\* how many times a task goes through its fetcher
MaxRounds == 2

RaceTasks == 1 .. MaxRaceTasks

\* the writer of a file left by an earlier run
EarlierRun == 0

PayloadKeys == <<"k1", "k2", "k3">>

FieldKeys == {PayloadKeys[k] : k \in 1 .. Len(PayloadKeys)} \cup {"cached_at"}

\* the cells of a file: braces, key/value pairs tagged with the task whose
\* fetch produced the value, and the zero bytes of a hole
Brace(b) == [key |-> b, val |-> EarlierRun]

Nul == [key |-> "nul", val |-> EarlierRun]

\* the dict save_to_cache dumps: the payload of n keys, then cached_at
Entry(t, n) ==
    [i \in 1 .. n + 1 |->
        [key |-> IF i <= n THEN PayloadKeys[i] ELSE "cached_at", val |-> t]]

\* json.dump(data, f): the text of the dict
json_dump(entry) == <<Brace("{")>> \o entry \o <<Brace("}")>>

\* a writer that hands every cell to the file on its own
ChunksPerCell(content) == [i \in 1 .. Len(content) |-> <<content[i]>>]

\* what the buffered file hands to the operating system: the payloads are
\* far below the buffer size, so the whole text goes out in one write when
\* the with block closes the file
Chunks(content) == <<content>>

\* write(2) of a chunk at a file position; a position past the end leaves a
\* hole of zero bytes
WriteAt(cells, pos, chunk) ==
    LET n == IF pos + Len(chunk) > Len(cells) THEN pos + Len(chunk) ELSE Len(cells)
    IN [i \in 1 .. n |->
            IF i > pos /\ i <= pos + Len(chunk) THEN chunk[i - pos]
            ELSE IF i <= Len(cells) THEN cells[i]
            ELSE Nul]

\* the text is one JSON object: an opening brace, pairs, a closing brace and
\* nothing after it
WellFormed(cells) ==
    /\ Len(cells) >= 2
    /\ cells[1].key = "{"
    /\ cells[Len(cells)].key = "}"
    /\ \A i \in 2 .. Len(cells) - 1 : cells[i].key \in FieldKeys

Miss == [kind |-> "None", fields |-> << >>]

\* json.load(f) inside load_cached_data: the dict of a well-formed file; a
\* JSONDecodeError is caught by the except and None is returned, as for a
\* file that does not exist
json_load(file) ==
    IF file.exists /\ WellFormed(file.cells)
    THEN [kind |-> "data", fields |-> SubSeq(file.cells, 2, Len(file.cells) - 1)]
    ELSE Miss

RaceInit ==
    /\ raceFile \in {[exists |-> FALSE, cells |-> << >>]}
                    \cup {[exists |-> TRUE, cells |-> json_dump(Entry(EarlierRun, n))] :
                             n \in 1 .. MaxFields}
    /\ racePc = [t \in RaceTasks |-> "start"]
    /\ racePos = [t \in RaceTasks |-> 0]
    /\ raceQueue = [t \in RaceTasks |-> << >>]
    /\ raceRead = [t \in RaceTasks |-> [kind |-> "unread", fields |-> << >>]]
    /\ raceRounds = [t \in RaceTasks |-> 1]

\* cached_data = load_cached_data(...): a hit is returned at once, a miss
\* sends the task to the provider
LoadCached(t) ==
    /\ racePc[t] = "start"
    /\ raceRead' = [raceRead EXCEPT ![t] = json_load(raceFile)]
    /\ racePc' = [racePc EXCEPT ![t] =
                    IF json_load(raceFile).kind = "data" THEN "done" ELSE "fetch"]
    /\ UNCHANGED <<raceFile, racePos, raceQueue, raceRounds>>
    /\ UNCHANGED nonRaceVars

\* requests.get: a 200 with a payload of n keys goes on to save_to_cache,
\* anything else returns None
FetchPayload(t, ok, n) ==
    /\ racePc[t] = "fetch"
    /\ racePc' = [racePc EXCEPT ![t] = IF ok THEN "save" ELSE "done"]
    /\ raceQueue' = [raceQueue EXCEPT ![t] =
                        IF ok THEN Chunks(json_dump(Entry(t, n))) ELSE << >>]
    /\ UNCHANGED <<raceFile, racePos, raceRead, raceRounds>>
    /\ UNCHANGED nonRaceVars

\* open(cache_file, 'w'): the file is created or truncated
OpenCacheFile(t) ==
    /\ racePc[t] = "save"
    /\ raceFile' = [exists |-> TRUE, cells |-> << >>]
    /\ racePos' = [racePos EXCEPT ![t] = 0]
    /\ racePc' = [racePc EXCEPT ![t] = "writing"]
    /\ UNCHANGED <<raceQueue, raceRead, raceRounds>>
    /\ UNCHANGED nonRaceVars

\* the next chunk goes out at the task's own file position; after the last
\* one the file is closed and the fetcher returns
WriteCacheFile(t) ==
    /\ racePc[t] = "writing"
    /\ raceQueue[t] # << >>
    /\ raceFile' = [raceFile EXCEPT
                        !.cells = WriteAt(raceFile.cells, racePos[t], Head(raceQueue[t]))]
    /\ racePos' = [racePos EXCEPT ![t] = racePos[t] + Len(Head(raceQueue[t]))]
    /\ raceQueue' = [raceQueue EXCEPT ![t] = Tail(raceQueue[t])]
    /\ racePc' = [racePc EXCEPT ![t] =
                    IF Tail(raceQueue[t]) = << >> THEN "done" ELSE "writing"]
    /\ UNCHANGED <<raceRead, raceRounds>>
    /\ UNCHANGED nonRaceVars

\* the task is handed the same coordinate again
NextRound(t) ==
    /\ racePc[t] = "done"
    /\ raceRounds[t] < MaxRounds
    /\ raceRounds' = [raceRounds EXCEPT ![t] = raceRounds[t] + 1]
    /\ racePc' = [racePc EXCEPT ![t] = "start"]
    /\ UNCHANGED <<raceFile, racePos, raceQueue, raceRead>>
    /\ UNCHANGED nonRaceVars

InitRace ==
    RaceInit /\ PoolIdle /\ AirIdle /\ CacheIdle /\ CleanIdle /\ TransformIdle /\ LoadIdle

NextRace ==
    \/ \E t \in RaceTasks : LoadCached(t)
    \/ \E t \in RaceTasks, ok \in BOOLEAN, n \in 1 .. MaxFields : FetchPayload(t, ok, n)
    \/ \E t \in RaceTasks : OpenCacheFile(t)
    \/ \E t \in RaceTasks : WriteCacheFile(t)
    \/ \E t \in RaceTasks : NextRound(t)

SpecRace == InitRace /\ [][NextRace]_vars

(***************************************************************************)
(* Properties of the pooled orchestrators                                  *)
(***************************************************************************)
KeyOk == ~(NeedsKey(domain) /\ ~apiKeySet)

CollectedTasks == {i \in Tasks : future[i].state = "collected"}

RecordsOf(loc) == {k \in 1 .. Len(data) : data[k].location = loc.name}

SameLocation(r, loc) ==
    /\ r.location = loc.name /\ r.province = loc.province
    /\ r.lat = loc.lat /\ r.lon = loc.lon

C2_FailureRecordShape ==
    \A i \in Tasks :
        (future[i].state \in {"finished", "collected"} /\ ~future[i].raised) =>
            /\ SameLocation(future[i].result, locations[i])
            /\ IsFailureRecord(future[i].result) =>
                  {"error_code", "error_message"} \subseteq DOMAIN future[i].result

\* C3: a failure record caused by a transient provider failure (timeout, 5xx,
\* 429) is only recorded after the request has been sent again at least once.
C3_TransientRetriedBeforeFailure ==
    \A i \in Tasks :
        ( /\ future[i].state \in {"finished", "collected"}
          /\ future[i].cause \in TransientOutcomes
          /\ ~future[i].raised
          /\ IsFailureRecord(future[i].result) ) => future[i].requests >= 2

AllFailed == \A k \in 1 .. Len(data) : IsFailureRecord(data[k])

\* C6: a run in which every task failed answers with success = false.
C6_AllFailedIsHardFailure ==
    (response # NoResponse /\ KeyOk /\ Len(locations) > 0 /\ AllFailed)
        => response.success = FALSE

(***************************************************************************)
(* Properties of the air crawler                                           *)
(***************************************************************************)
\* C4: once a source has answered 401 it is disabled for the rest of the
\* run: no further request is sent to it, in this attempt or in a retry
\* (stated for the two adapters that recognise the 401 answer).
C4_NoRequestAfter401 == airAfter401 \cap {"IQAir", "OpenWeatherMap"} = {}

ResultsFrom(tag) == {k \in 1 .. Len(all_results) : all_results[k].source = tag}

\* C7: three cities and two adapters, WAQI failing on every request and
\* OpenWeatherMap succeeding on every request: the finished run holds three
\* results of the failing adapter and three of the succeeding one.
C7_ThreeFailuresThreeSuccesses ==
    ( /\ airPc = "done" /\ airOnline /\ airResponse.success
      /\ Len(airCities) = 3
      /\ airKeys = {"OpenWeatherMap"}
      /\ airMode["WAQI"] = "down" /\ airMode["OpenWeatherMap"] = "up" )
    => /\ Cardinality(ResultsFrom("waqi")) = 3
       /\ Cardinality(ResultsFrom("openweathermap")) = 3
       /\ all_results # << >>

(***************************************************************************)
(* Properties of the soil crawler cache                                    *)
(***************************************************************************)
\* C5: an entry is served from the cache only while its age is below the
\* source's TTL; a stale entry is never served.
C5_OnlyFreshEntriesServed ==
    (cacheServed.origin = "cache" /\ cacheServed.stamped)
        => cacheServed.age < max_age_hours(cacheServed.source)

(***************************************************************************)
(* Properties of the cleaners                                              *)
(***************************************************************************)
InBoundsOrNull(x, lower, upper) == x = NaN \/ (lower * Unit <= x /\ x <= upper * Unit)

\* the documented bounds of the columns a cleaned row has
RowWithinBounds(r) ==
    /\ "aqi" \in DOMAIN r => InBoundsOrNull(r.aqi, 10, 500)
    /\ "humidity" \in DOMAIN r => InBoundsOrNull(r.humidity, 0, 100)
    /\ "latitude" \in DOMAIN r => InBoundsOrNull(r.latitude, -90, 90)
    /\ "lat" \in DOMAIN r => InBoundsOrNull(r.lat, -90, 90)

\* C8: after cleaning, every numeric field is null or within its documented
\* bounds (AQI in [10, 500], humidity in [0, 100], latitude in [-90, 90]),
\* whichever cleaner ran.
C8_CleanedWithinBounds ==
    cleanPc \in {"cleaned", "recleaned"} =>
        \A i \in 1 .. Len(cleaned) : RowWithinBounds(cleaned[i])

\* C9: cleaning is idempotent: cleaning a cleaned batch gives it back.
C9_CleanIdempotent == cleanPc = "recleaned" => recleaned = cleaned

AqiColumn(rows) == [i \in 1 .. Len(rows) |-> rows[i].aqi]

\* C10: the air cleaner leaves an AQI inside [10, 500] as it is, and turns
\* the readings [5, 55, 600, null, 120] into [87.5, 55, 87.5, 87.5, 120].
C10_AqiRule ==
    (cleanDomain = "air" /\ cleanPc = "cleaned") =>
        /\ rawBatch = AqiSeries(AqiExample) =>
              AqiColumn(cleaned) = <<87500, 55 * Unit, 87500, 87500, 120 * Unit>>
        /\ Len(cleaned) = Len(rawBatch) =>
              \A i \in 1 .. Len(rawBatch) :
                  (rawBatch[i].aqi # NaN /\ InBoundsOrNull(rawBatch[i].aqi, 10, 500))
                      => cleaned[i].aqi = rawBatch[i].aqi


(***************************************************************************)
(* Properties of cleaning and the dimensional transform                    *)
(***************************************************************************)
Transformed == tfPc = "transformed" /\ ~tfTables.raised

ColumnSet(cols) == {cols[k] : k \in 1 .. Len(cols)}

\* C11: over every imputation of a cleaner run, no important field has more
\* null cells after the imputation than before it, and no cell of an
\* important field that had a value is null afterwards.
C11_ImputationMonotone ==
    \A s \in 1 .. Len(tfSteps) :
        /\ Len(tfSteps[s].after) = Len(tfSteps[s].before)
        /\ \A c \in ColumnSet(tfSteps[s].cols) :
              /\ NullCount(tfSteps[s].after, c) <= NullCount(tfSteps[s].before, c)
              /\ \A i \in 1 .. Len(tfSteps[s].before) :
                    tfSteps[s].before[i][c] # NaN => tfSteps[s].after[i][c] # NaN

\* an imputation filled a null cell of an important field
C11_Witness ==
    /\ tfPc = "cleaned"
    /\ \E s \in 1 .. Len(tfSteps) : \E c \in ColumnSet(tfSteps[s].cols) :
          /\ NullCount(tfSteps[s].before, c) > 0
          /\ NullCount(tfSteps[s].after, c) < NullCount(tfSteps[s].before, c)

\* C12: after a transform, every non-null foreign key of every fact row is
\* the surrogate key of a row of its dimension table, and that row carries
\* the natural key of the cleaned record the fact row was made from.
C12_ReferentialIntegrity ==
    Transformed =>
        \A k \in 1 .. Len(Dimensions(tfDomain)) :
            \A i \in 1 .. Len(tfTables.fact) :
                LET dim   == Dimensions(tfDomain)[k]
                    table == tfTables.dims[k]
                    fk    == tfTables.fact[i][dim.id]
                IN fk # NoId =>
                      \E j \in 1 .. Len(table) :
                          /\ table[j][dim.id] = fk
                          /\ \A c \in dim.keys : table[j][c] = tfClean[i][c]

\* a fact row references the second row of a dimension
C12_Witness ==
    /\ Transformed
    /\ \E k \in 1 .. Len(Dimensions(tfDomain)) :
          /\ Len(tfTables.dims[k]) >= 2
          /\ \E i \in 1 .. Len(tfTables.fact) :
                tfTables.fact[i][Dimensions(tfDomain)[k].id] = 2

\* C13: in every dimension table of a batch, two rows with the same natural
\* key are the same row and two rows with the same surrogate key are the
\* same row, also when the records differ in non-key attributes.
C13_KeyBijection ==
    Transformed =>
        \A k \in 1 .. Len(Dimensions(tfDomain)) :
            LET dim   == Dimensions(tfDomain)[k]
                table == tfTables.dims[k]
            IN \A a, b \in 1 .. Len(table) :
                  /\ (\A c \in dim.keys : table[a][c] = table[b][c]) => a = b
                  /\ table[a][dim.id] = table[b][dim.id] => a = b

\* C14: for the four soil rows with provinces Hanoi, Hanoi, HCMC and null,
\* the Province dimension is exactly 1 = Hanoi, 2 = HCMC, and the fact table
\* keeps all four rows, the null-province row with a foreign key that is
\* null or the key of "Unknown Province".
C14_ProvinceExample ==
    (tfPc = "transformed" /\ tfRaw = ProvinceExample) =>
        /\ ~tfTables.raised
        /\ tfTables.dims[1] = << [province |-> "Hanoi", province_id |-> 1],
                                  [province |-> "HCMC",  province_id |-> 2] >>
        /\ Len(tfTables.fact) = Len(ProvinceExample)
        /\ \A i \in 1 .. Len(ProvinceExample) :
              ProvinceExample[i].province = NoText =>
                  \/ tfTables.fact[i].province_id = NoId
                  \/ \E j \in 1 .. Len(tfTables.dims[1]) :
                        /\ tfTables.dims[1][j].province = "Unknown Province"
                        /\ tfTables.dims[1][j].province_id = tfTables.fact[i].province_id

\* C18: every row of a fact table has a timestamp that parsed.
C18_FactTimestamps ==
    Transformed =>
        \A i \in 1 .. Len(tfTables.fact) : tfTables.fact[i].timestamp # NoText

\* C19: when the natural-key column of a dimension is absent from the
\* cleaned frame, the transform does not raise, that dimension table is
\* empty and its foreign key is null in every fact row.
C19_AbsentKeyColumn ==
    (tfPc = "transformed" /\ tfAbsent # {}) =>
        /\ ~tfTables.raised
        /\ \A k \in 1 .. Len(Dimensions(tfDomain)) :
              Dimensions(tfDomain)[k].keys \cap tfAbsent # {} =>
                  /\ tfTables.dims[k] = << >>
                  /\ \A i \in 1 .. Len(tfTables.fact) :
                        tfTables.fact[i][Dimensions(tfDomain)[k].id] = NoId

(***************************************************************************)
(* Properties of the load paths                                            *)
(***************************************************************************)
Loaded == lastLoad.path # "none"

IsWrite(o) == o.op \in {"replace", "append"}

WritesOf(ops) == {k \in 1 .. Len(ops) : IsWrite(ops[k])}

IsPrefix(a, b) == Len(a) <= Len(b) /\ SubSeq(b, 1, Len(a)) = a

\* C15: in every load run a connectivity probe precedes the first write to
\* the store, and a run against an unreachable store attempts no write and
\* leaves the store as it was.
C15_ProbeBeforeWrite ==
    Loaded =>
        /\ \A k \in WritesOf(lastLoad.ops) :
              \E j \in 1 .. k - 1 : lastLoad.ops[j].op = "probe"
        /\ ~lastLoad.up => (WritesOf(lastLoad.ops) = {} /\ store = lastLoad.before)

\* C16: a run whose cleaned frame has no rows answers with a failure and
\* attempts no write to the store; a run with surviving rows on a reachable
\* store answers without a failure.
C16_EmptyBatchFails ==
    Loaded =>
        /\ (lastLoad.survived = 0 /\ ~lastLoad.raised) =>
              /\ lastLoad.response.failure
              /\ WritesOf(lastLoad.ops) = {}
              /\ store = lastLoad.before
        /\ (lastLoad.survived > 0 /\ ~lastLoad.raised /\ lastLoad.up) =>
              ~lastLoad.response.failure

\* C17: whatever load path runs, the fact table of every domain still holds
\* the rows it held before the run, in their place.
C17_FactsPermanent ==
    Loaded =>
        \A d \in StoreDomains :
            lastLoad.before[d].fact.exists =>
                /\ store[d].fact.exists
                /\ IsPrefix(lastLoad.before[d].fact.rows, store[d].fact.rows)

(***************************************************************************)
(* Row order of the batch a crawl hands downstream                         *)
(***************************************************************************)
\* the location names in ascending string order
NamesAscending == <<"Da Nang", "Hanoi", "Hue">>

NameRank(name) == CHOOSE k \in 1 .. Len(NamesAscending) : NamesAscending[k] = name

\* the instants of one run: the provider's observation time ("dt") lies
\* before the time the run started or the task ran
TimeRank(t) == IF t = "dt" THEN 1 ELSE 2

\* row a may stand directly before row b in a frame sorted by timestamp
\* descending, then location ascending
SortedBefore(a, b) ==
    \/ TimeRank(a.timestamp) > TimeRank(b.timestamp)
    \/ /\ TimeRank(a.timestamp) = TimeRank(b.timestamp)
       /\ NameRank(a.location) <= NameRank(b.location)

\* pd.DataFrame(data).to_csv(index=False): one line per record, in list order
csv_content == [k \in 1 .. Len(data) |->
                    [timestamp |-> data[k].timestamp, location |-> data[k].location]]

\* C20: the csv_content of a run that answers is sorted by timestamp
\* descending, then location ascending, whatever order the tasks completed in.
C20_SortedBatch ==
    response.status = 200 =>
        \A k \in 1 .. Len(csv_content) - 1 :
            SortedBefore(csv_content[k], csv_content[k + 1])

(***************************************************************************)
(* Properties of the record filters                                        *)
(***************************************************************************)
\* a record as an adapter writes it for a fetch that worked: no failure flag,
\* and every field the cleaners require present and parseable
Reading(r) ==
    /\ r.success # "False"
    /\ r.location # NoText
    /\ r.province \notin {NoText, ""}
    /\ r.lat \notin {NaN, BadText}
    /\ to_datetime(r.timestamp) # NoText
    /\ "temperature" \in DOMAIN r => r.temperature # NaN

\* C21: cleaning a batch removes only its failure records: every reading of
\* the raw batch that has its required fields, with or without an explicit
\* success flag, has a row in the cleaned batch.
C21_OnlyFailuresRemoved ==
    (cleanPc # "raw" /\ cleanDomain \in {"climate", "soil"}) =>
        \A i \in 1 .. Len(rawBatch) :
            Reading(rawBatch[i]) =>
                \E k \in 1 .. Len(cleaned) : cleaned[k].timestamp = rawBatch[i].timestamp

(***************************************************************************)
(* Properties of the store over several runs                               *)
(***************************************************************************)
\* the run answered without a failure and its writes went through
LoadSucceeded == Loaded /\ lastLoad.up /\ ~lastLoad.raised /\ ~lastLoad.response.failure

\* the rows of a stored dimension table that carry surrogate key v
RowsWithId(table, id, v) == {j \in 1 .. Len(table.rows) : table.rows[j][id] = v}

\* dimension k of domain d still resolves key v to the natural key it
\* resolved it to before the run
SameReferent(d, k, v) ==
    LET dim == Dimensions(d)[k]
        old == lastLoad.before[d].dims[k]
        new == store[d].dims[k]
    IN \A j \in RowsWithId(old, dim.id, v) :
          \E n \in RowsWithId(new, dim.id, v) :
              \A c \in dim.keys : new.rows[n][c] = old.rows[j][c]

\* C22: after a successful run, every non-null foreign key of every fact row
\* that an earlier run appended still finds, in the dimension table as the
\* run left it, a row with that key and with the natural key it had before.
C22_EarlierFactsStillResolve ==
    (LoadSucceeded /\ lastLoad.path # "main") =>
        \A d \in StoreDomains :
            \A i \in 1 .. Len(lastLoad.before[d].fact.rows) :
                \A k \in 1 .. Len(Dimensions(d)) :
                    LET v == store[d].fact.rows[i][Dimensions(d)[k].id]
                    IN v # NoId => SameReferent(d, k, v)


\* C23: in every load each dimension table is written with replace and the
\* fact table with append, and the fact table is the last write of the run.
C23_ReplaceThenAppend ==
    Loaded =>
        \A k \in WritesOf(lastLoad.ops) :
            IF lastLoad.ops[k].table = "fact"
            THEN lastLoad.ops[k].op = "append" /\ k = Len(lastLoad.ops)
            ELSE lastLoad.ops[k].op = "replace"


\* a successful record whose location, province, coordinates and timestamp
\* are present and parse
Usable(r) ==
    /\ r.success # "False"
    /\ r.location # NoText
    /\ r.province \notin {NoText, ""}
    /\ r.lat \notin {NaN, BadText}
    /\ to_datetime(r.timestamp) # NoText

\* C24: the records that survive cleaning are exactly the usable ones: every
\* cleaned row comes from a usable raw record of its timestamp, and every
\* usable raw record has a cleaned row, whatever its other fields hold.
C24_ExactlyTheUsableSurvive ==
    (cleanPc # "raw" /\ cleanDomain \in {"climate", "soil"}) =>
        /\ \A k \in 1 .. Len(cleaned) :
              \E i \in 1 .. Len(rawBatch) :
                  Usable(rawBatch[i]) /\ rawBatch[i].timestamp = cleaned[k].timestamp
        /\ \A i \in 1 .. Len(rawBatch) :
              Usable(rawBatch[i]) =>
                  \E k \in 1 .. Len(cleaned) : cleaned[k].timestamp = rawBatch[i].timestamp


\* the (location, timestamp) of a record after normalization; the air frame
\* names its location column city
KeyOf(r) ==
    IF "city" \in DOMAIN r THEN <<LowerStrip(r.city), to_datetime(r.timestamp)>>
    ELSE <<Strip(r.location), to_datetime(r.timestamp)>>

\* the first record in input order among the usable ones of its key
FirstUsable(i) ==
    /\ Usable(rawBatch[i])
    /\ \A j \in 1 .. i - 1 :
          ~(Usable(rawBatch[j]) /\ KeyOf(rawBatch[j]) = KeyOf(rawBatch[i]))

\* the latitude a cleaner leaves for a latitude that parses
CleanedLat(d, x) == IF d = "climate" THEN ClipCoordinate(x) ELSE to_numeric(x)

\* C25: no two rows of the cleaned batch share a (location, timestamp), and
\* of the records that pass the filter and share one, the first in input
\* order is the one the cleaned batch holds.
C25_FirstOfEachKeyKept ==
    cleanPc # "raw" =>
        /\ \A k, m \in 1 .. Len(cleaned) :
              KeyOf(cleaned[k]) = KeyOf(cleaned[m]) => k = m
        /\ cleanDomain \in {"climate", "soil"} =>
              \A i \in 1 .. Len(rawBatch) :
                  FirstUsable(i) =>
                      \E k \in 1 .. Len(cleaned) :
                          /\ KeyOf(cleaned[k]) = KeyOf(rawBatch[i])
                          /\ cleaned[k].lat = CleanedLat(cleanDomain, rawBatch[i].lat)


(***************************************************************************)
(* Properties of the shared cache file                                     *)
(***************************************************************************)
\* the entries some writer dumped whole
CompleteEntries ==
    {Entry(w, n) : w \in {EarlierRun} \cup RaceTasks, n \in 1 .. MaxFields}

\* C26: whatever way the opens, writes and reads of the tasks interleave on
\* one cache file, a read returns a miss or the complete entry of one
\* writer, never cells of two writers or a part of an entry.
C26_ReadIsCompleteOrMiss ==
    \A t \in DOMAIN raceRead :
        raceRead[t].kind = "data" => raceRead[t].fields \in CompleteEntries

\* two writers have overlapped on the file, leaving the text of one
\* followed by the end of the other's, and a task has read it as a miss
C26_Witness ==
    /\ raceFile # << >>
    /\ raceFile.exists
    /\ Len(raceFile.cells) > 2
    /\ ~WellFormed(raceFile.cells)
    /\ \E t \in RaceTasks :
          /\ raceRead[t] = Miss
          /\ racePc[t] = "fetch"
          /\ raceRounds[t] = 2


\* the distinct natural-key tuples of dimension k in the cleaned batch, in
\* first-seen order
NaturalKeysOf(k) ==
    LET Key(r) == [c \in Dimensions(tfDomain)[k].keys |-> r[c]]
    IN drop_duplicates(tfClean, Key)

\* C28: each dimension table has one row per distinct natural-key tuple of
\* the cleaned batch, the i-th tuple in first-seen order carrying surrogate
\* key i, and the fact table has one row per cleaned record, in their order.
C28_KeysInFirstSeenOrder ==
    Transformed =>
        /\ \A k \in 1 .. Len(Dimensions(tfDomain)) :
              LET dim   == Dimensions(tfDomain)[k]
                  table == tfTables.dims[k]
                  seen  == NaturalKeysOf(k)
              IN /\ Len(table) = Len(seen)
                 /\ \A j \in 1 .. Len(table) :
                       /\ table[j][dim.id] = j
                       /\ j <= Len(seen) => \A c \in dim.keys : table[j][c] = seen[j][c]
        /\ Len(tfTables.fact) = Len(tfClean)
        /\ \A i \in 1 .. Len(tfTables.fact) :
              tfTables.fact[i].timestamp = tfClean[i].timestamp


\* the tables the transform made of the run's cleaned frame
LoadedTables == TransformOf(DomainOf(lastLoad.path), lastLoad.clean, lastLoad.absent)

\* the store held, before the run, what a first load of the same cleaned
\* frame leaves in an empty store
IsRerun ==
    LET d == DomainOf(lastLoad.path)
    IN /\ Len(lastLoad.clean) > 0
       /\ lastLoad.before[d] = Written(EmptyStore[d], LoadedTables, "append")

\* C27: a successful second load of the same cleaned frame leaves every
\* dimension table with the contents the first load gave it and the fact
\* table with the rows of the frame twice.
C27_RerunDoublesFactsOnly ==
    (LoadSucceeded /\ IsRerun) =>
        LET d == DomainOf(lastLoad.path)
        IN /\ store[d].dims = lastLoad.before[d].dims
           /\ store[d].fact.rows = LoadedTables.fact \o LoadedTables.fact


\* the null fraction of some important field of the frame is above 30%
Exceeds30(df) ==
    \E c \in ColumnSet(WaterImportantCols) : 100 * NullCount(df, c) > 30 * Len(df)

\* C29: in water cleaning, when an important field of the batch is null in
\* more than 30% of the rows, no important field is null in any row
\* afterwards; when none is (exactly 30% included), no important cell is
\* given a synthetic value.
C29_EscalationAbove30 ==
    (tfDomain = "water" /\ tfPc # "raw") =>
        \A s \in 1 .. Len(tfSteps) :
            LET before == tfSteps[s].before
                after  == tfSteps[s].after
            IN IF Exceeds30(before)
               THEN \A i \in 1 .. Len(after) :
                       \A c \in ColumnSet(WaterImportantCols) : after[i][c] # NaN
               ELSE \A i \in 1 .. Len(before) :
                       \A c \in ColumnSet(WaterImportantCols) : after[i][c] = before[i][c]


\* two positions of a record list never hold the same city from the same source
OncePerCitySource(rs) ==
    \A j, k \in 1 .. Len(rs) :
        (rs[j].city = rs[k].city /\ rs[j].source = rs[k].source) => j = k

\* C30: a source's retry loop never goes beyond its third attempt, WAQI's
\* per-city loop never beyond its third turn, and neither the list a crawl
\* function is building nor the orchestrator's result ever holds two records
\* of one city from one source: a retry never adds records a second time
C30_RetryNeverDuplicates ==
    /\ airAttempt \in 0 .. max_retries - 1
    /\ airTry \in 0 .. max_retries - 1
    /\ OncePerCitySource(airData)
    /\ OncePerCitySource(all_results)
    /\ OncePerCitySource(all_results \o airData)

\* a later source returned records on a retry while an earlier source's
\* records are already in the result
C30_Witness ==
    /\ CallReturned
    /\ airAttempt >= 1
    /\ airData # << >>
    /\ all_results # << >>

=============================================================================
